---- MODULE Spec2Model ----
(***************************************************************************)
(* Model of the tick checklist runner: the condition evaluator, the        *)
(* expansion algorithm, the engine's session state machine, the checklist  *)
(* digest guard and resume reconciliation, together with the session       *)
(* storage and the run / report commands that drive them.                   *)
(*                                                                         *)
(* Python values are records [t, v, e]: t is the type tag, v the printed   *)
(* form (so that str(x) keeps v and changes only the tag), e the elements  *)
(* of a list value.                                                         *)
(*                                                                         *)
(* engine.py:174-175 and 198-201 use the session snapshot attributes        *)
(* resolved_checklist / resolved_items; the model carries them as the       *)
(* single session field "resolved" (TRUE once the snapshot is stored).      *)
(***************************************************************************)
EXTENDS Integers, Sequences, FiniteSets, TLC

(***************************************************************************)
(* Bounds                                                                   *)
(***************************************************************************)
MaxResponses == 2
MaxSessions == 1
\* the sections of a checklist given to the expansion on its own
MaxSections == 2
\* the saves made into one session directory
MaxSaves == 3

(***************************************************************************)
(* Python values                                                            *)
(***************************************************************************)
Val(t, v) == [t |-> t, v |-> v, e |-> <<>>]
PyStr(s) == Val("str", s)
PyTrue == Val("bool", "True")
PyFalse == Val("bool", "False")
PyNone == Val("none", "None")
PyList(es) == [t |-> "list", v |-> "", e |-> es]
Err == Val("err", "")

\* str(value): the printed form with the string type (engine.py:163)
StrOf(x) == PyStr(x.v)

\* the integer a bool or a number compares as
NumOf(x) == IF x.t = "bool" THEN (IF x.v = "True" THEN "1" ELSE "0") ELSE x.v

\* Python ==
PyEq(a, b) ==
    IF a.t \in {"bool", "num"} /\ b.t \in {"bool", "num"} THEN NumOf(a) = NumOf(b)
    ELSE a.t = b.t /\ a.v = b.v /\ a.e = b.e

\* Python truthiness: bool(value)
Truthy(x) ==
    CASE x.t = "str" -> x.v # ""
      [] x.t = "bool" -> x.v = "True"
      [] x.t = "num" -> x.v # "0"
      [] x.t = "none" -> FALSE
      [] x.t = "list" -> Len(x.e) > 0
      [] OTHER -> FALSE

PyBool(b) == IF b THEN PyTrue ELSE PyFalse

\* a dict is the sequence of its (key, value) pairs in insertion order
DictHas(d, k) == \E i \in 1..Len(d) : d[i][1] = k
DictGet(d, k) == d[CHOOSE i \in 1..Len(d) : d[i][1] = k][2]

(***************************************************************************)
(* Condition expressions: the tree ast.parse yields for a condition string *)
(***************************************************************************)
Node(k, name, val, ops, args) == [k |-> k, name |-> name, val |-> val, ops |-> ops, args |-> args]
NoCond == Node("none", "", PyNone, <<>>, <<>>)
Name(n) == Node("name", n, PyNone, <<>>, <<>>)
Const(v) == Node("const", "", v, <<>>, <<>>)
Compare(left, ops, comparators) == Node("cmp", "", PyNone, ops, <<left>> \o comparators)

AllowedNodes == {"name", "const", "not", "and", "or", "cmp", "list"}
\* the operator nodes of a comparison that are allowed (engine.py:42-45)
AllowedOps == {"==", "!=", "in", "not in"}

\* a check of the root node alone
AllAllowedRoot(node) ==
    /\ node.k \in AllowedNodes
    /\ \A i \in 1..Len(node.ops) : node.ops[i] \in AllowedOps

RECURSIVE AllAllowed(_)
\* every node ast.walk yields is of an allowed kind (engine.py:95)
AllAllowed(node) ==
    /\ node.k \in AllowedNodes
    /\ \A i \in 1..Len(node.ops) : node.ops[i] \in AllowedOps
    /\ \A i \in 1..Len(node.args) : AllAllowed(node.args[i])

RECURSIVE EvalNode(_, _)
RECURSIVE EvalCompare(_, _, _, _)
RECURSIVE EvalCompareNegated(_, _, _, _)
\* a comparison loop whose "not in" is the negation of "in" on every right side
EvalCompareNegated(node, i, left, variables) ==
    IF i > Len(node.ops) THEN PyTrue
    ELSE LET right == EvalNode(node.args[i + 1], variables)
             op == node.ops[i]
         IN IF right.t = "err" THEN Err
            ELSE IF op = "==" /\ ~PyEq(left, right) THEN PyFalse
            ELSE IF op = "!=" /\ PyEq(left, right) THEN PyFalse
            ELSE IF op = "in" /\ right.t # "list" THEN PyFalse
            ELSE IF op = "in" /\ ~(\E j \in 1..Len(right.e) : PyEq(left, right.e[j])) THEN PyFalse
            ELSE IF op = "not in" /\ right.t = "list"
                    /\ (\E j \in 1..Len(right.e) : PyEq(left, right.e[j])) THEN PyFalse
            ELSE EvalCompareNegated(node, i + 1, right, variables)

RECURSIVE EvalCompareFirst(_, _, _, _)
\* a comparison loop that compares every comparator with the first operand
EvalCompareFirst(node, i, left, variables) ==
    IF i > Len(node.ops) THEN PyTrue
    ELSE LET right == EvalNode(node.args[i + 1], variables)
             op == node.ops[i]
         IN IF right.t = "err" THEN Err
            ELSE IF op = "==" /\ ~PyEq(left, right) THEN PyFalse
            ELSE IF op = "!=" /\ PyEq(left, right) THEN PyFalse
            ELSE IF op = "in" /\ right.t # "list" THEN PyFalse
            ELSE IF op = "in" /\ ~(\E j \in 1..Len(right.e) : PyEq(left, right.e[j])) THEN PyFalse
            ELSE IF op = "not in" /\ right.t # "list" THEN PyFalse
            ELSE IF op = "not in" /\ (\E j \in 1..Len(right.e) : PyEq(left, right.e[j])) THEN PyFalse
            ELSE EvalCompareFirst(node, i + 1, left, variables)

\* the loop of engine.py:63-80, from comparator i on, with the current left value
EvalCompare(node, i, left, variables) ==
    IF i > Len(node.ops) THEN PyTrue
    ELSE LET right == EvalNode(node.args[i + 1], variables)
             op == node.ops[i]
         IN IF right.t = "err" THEN Err
            ELSE IF op = "==" /\ ~PyEq(left, right) THEN PyFalse
            ELSE IF op = "!=" /\ PyEq(left, right) THEN PyFalse
            ELSE IF op = "in" /\ right.t # "list" THEN PyFalse
            ELSE IF op = "in" /\ ~(\E j \in 1..Len(right.e) : PyEq(left, right.e[j])) THEN PyFalse
            ELSE IF op = "not in" /\ right.t # "list" THEN PyFalse
            ELSE IF op = "not in" /\ (\E j \in 1..Len(right.e) : PyEq(left, right.e[j])) THEN PyFalse
            ELSE EvalCompare(node, i + 1, right, variables)

EvalNode(node, variables) ==
    CASE node.k \in {"and", "or"} ->
            LET values == [i \in 1..Len(node.args) |-> EvalNode(node.args[i], variables)]
            IN IF \E i \in 1..Len(values) : values[i].t = "err" THEN Err
               ELSE IF node.k = "and" THEN PyBool(\A i \in 1..Len(values) : Truthy(values[i]))
               ELSE PyBool(\E i \in 1..Len(values) : Truthy(values[i]))
      [] node.k = "not" ->
            LET operand == EvalNode(node.args[1], variables)
            IN IF operand.t = "err" THEN Err ELSE PyBool(~Truthy(operand))
      [] node.k = "cmp" ->
            LET left == EvalNode(node.args[1], variables)
            IN IF left.t = "err" THEN Err ELSE EvalCompare(node, 1, left, variables)
      [] node.k = "name" ->
            IF ~DictHas(variables, node.name) \/ DictGet(variables, node.name).t = "none"
            THEN Err ELSE DictGet(variables, node.name)
      [] node.k = "const" -> node.val
      [] node.k = "list" ->
            LET values == [i \in 1..Len(node.args) |-> EvalNode(node.args[i], variables)]
            IN IF \E i \in 1..Len(values) : values[i].t = "err" THEN Err ELSE PyList(values)
      [] OTHER -> Err

\* a _safe_eval_condition whose root and / or stops at the operand that
\* decides it, as the Python operators do
SafeEvalConditionLazy(condition, variables) ==
    IF condition.k = "none" THEN "T"
    ELSE IF condition.k = "syntax" THEN "E"
    ELSE IF ~AllAllowed(condition) THEN "E"
    ELSE IF condition.k \in {"and", "or"}
            /\ \E i \in 1..Len(condition.args) :
                  /\ \A j \in 1..i : EvalNode(condition.args[j], variables).t # "err"
                  /\ Truthy(EvalNode(condition.args[i], variables)) = (condition.k = "or")
    THEN (IF condition.k = "or" THEN "T" ELSE "F")
    ELSE LET r == EvalNode(condition, variables)
         IN IF r.t = "err" THEN "E" ELSE IF Truthy(r) THEN "T" ELSE "F"

\* _safe_eval_condition: "T", "F", or "E" when it raises ValueError
SafeEvalCondition(condition, variables) ==
    IF condition.k = "none" THEN "T"
    ELSE IF condition.k = "syntax" THEN "E"
    ELSE IF ~AllAllowed(condition) THEN "E"
    ELSE LET r == EvalNode(condition, variables)
         IN IF r.t = "err" THEN "E" ELSE IF Truthy(r) THEN "T" ELSE "F"

(***************************************************************************)
(* Strings that get sorted, in lexicographic order                          *)
(***************************************************************************)
StrOrder == <<"browser", "chrome", "linux", "os">>
Rank(s) == CHOOSE i \in 1..Len(StrOrder) : StrOrder[i] = s

\* (k1, v1) < (k2, v2) as Python compares tuples of strings
PairLess(p, q) == Rank(p[1]) < Rank(q[1]) \/ (p[1] = q[1] /\ Rank(p[2]) < Rank(q[2]))

RECURSIVE Insert(_, _)
Insert(sorted, p) ==
    IF sorted = <<>> THEN <<p>>
    ELSE IF PairLess(p, Head(sorted)) THEN <<p>> \o sorted
    ELSE <<Head(sorted)>> \o Insert(Tail(sorted), p)

RECURSIVE Sorted(_)
\* sorted(pairs)
Sorted(pairs) == IF pairs = <<>> THEN <<>> ELSE Insert(Sorted(Tail(pairs)), Head(pairs))

(***************************************************************************)
(* Matrix contexts: None, or a dict as its (key, value) pairs in insertion *)
(* order                                                                     *)
(***************************************************************************)
NoneCtx == [none |-> TRUE, kv |-> <<>>]
Ctx(kv) == [none |-> FALSE, kv |-> kv]

\* a key that keeps the pairs in insertion order
matrix_key_insertion(matrix) == matrix

\* matrix_key: None for None, else the sorted tuple of (str(key), str(value))
matrix_key(matrix) == IF matrix.none THEN NoneCtx ELSE Ctx(Sorted(matrix.kv))

(***************************************************************************)
(* Checklists                                                               *)
(***************************************************************************)
ChecklistItem(id, check, condition, matrix) ==
    [id |-> id, check |-> check, condition |-> condition, matrix |-> matrix]
ChecklistSection(name, condition, items) ==
    [name |-> name, condition |-> condition, items |-> items]
ChecklistVariable(key, required, options, default) ==
    [key |-> key, required |-> required, options |-> options, default |-> default]
Checklist(name, version, variables, sections) ==
    [name |-> name, version |-> version, variables |-> variables, sections |-> sections]

CtxChrome == Ctx(<<<<"browser", "chrome">>>>)
CtxLinux == Ctx(<<<<"os", "linux">>, <<"browser", "chrome">>>>)
\* the same mapping as CtxLinux, written with its keys in the other order
CtxLinuxPerm == Ctx(<<<<"browser", "chrome">>, <<"os", "linux">>>>)

ItemA == ChecklistItem("a", "first check", NoCond, <<>>)
ItemAEdited == ChecklistItem("a", "first check, reworded", NoCond, <<>>)
ItemB == ChecklistItem("b", "second check", NoCond, <<CtxChrome, CtxLinux>>)
ItemBPerm == ChecklistItem("b", "second check", NoCond, <<CtxChrome, CtxLinuxPerm>>)

FlagVar == ChecklistVariable("flag", FALSE, <<>>, PyNone)
\* flag == True
FlagIsTrue == Compare(Name("flag"), <<"==">>, <<Const(PyTrue)>>)

SecAlways == ChecklistSection("Always", NoCond, <<ItemA>>)
SecAlwaysEdited == ChecklistSection("Always", NoCond, <<ItemAEdited>>)
SecFlag == ChecklistSection("Flag", FlagIsTrue, <<ItemB>>)
SecFlagPerm == ChecklistSection("Flag", FlagIsTrue, <<ItemBPerm>>)
\* the bare condition "flag"
SecBare == ChecklistSection("Flag", Name("flag"), <<ItemB>>)

CBase == Checklist("Audit", "1", <<FlagVar>>, <<SecAlways, SecFlag>>)
CPerm == Checklist("Audit", "1", <<FlagVar>>, <<SecAlways, SecFlagPerm>>)
CEdit == Checklist("Audit", "1", <<FlagVar>>, <<SecAlwaysEdited, SecFlag>>)
CSwap == Checklist("Audit", "1", <<FlagVar>>, <<SecBare, SecAlways>>)

\* an item whose matrix holds one entry without keys (matrix: [{}])
ItemZ == ChecklistItem("z", "last check", NoCond, <<Ctx(<<>>)>>)
SecMatrix == ChecklistSection("Matrix", NoCond, <<ItemB>>)
SecBlank == ChecklistSection("Blank", NoCond, <<ItemZ, ItemA>>)
\* a checklist of one matrix item, and one whose matrix item has the empty entry
CMatrix == Checklist("Audit", "1", <<FlagVar>>, <<SecMatrix>>)
CBlank == Checklist("Audit", "1", <<FlagVar>>, <<SecBlank>>)

\* every checklist content of the model; a checklist is held in the state as
\* its position in this list
ChecklistUniverse == <<CBase, CPerm, CEdit, CSwap, CMatrix, CBlank>>
Content(i) == ChecklistUniverse[i]
IndexOf(c) == CHOOSE i \in 1..Len(ChecklistUniverse) : ChecklistUniverse[i] = c
\* the successive versions of the checklist file
FileVersions == <<IndexOf(CBase), IndexOf(CEdit), IndexOf(CSwap)>>

\* _slugify on the names of the model
Slugify(value) == IF value \in {"Audit", "audit", " Audit "} THEN "audit" ELSE "checklist"
\* Checklist.checklist_id
ChecklistId(c) == <<Slugify(c.name), c.version>>

(***************************************************************************)
(* Expansion                                                                *)
(***************************************************************************)
ResolvedItem(section_name, item, matrix_context) ==
    [section_name |-> section_name, item |-> item, matrix_context |-> matrix_context]

Raised == [ok |-> FALSE, items |-> <<>>]
Returned(items) == [ok |-> TRUE, items |-> items]

\* an expansion that keeps the first matrix entry only
ExpandItemFirst(section, item) ==
    <<ResolvedItem(section.name, item,
                   IF Len(item.matrix) > 0 THEN item.matrix[1] ELSE NoneCtx)>>

\* the resolved items of one kept item (engine.py:110-120)
ExpandItem(section, item) ==
    IF Len(item.matrix) > 0
    THEN [k \in 1..Len(item.matrix) |-> ResolvedItem(section.name, item, item.matrix[k])]
    ELSE <<ResolvedItem(section.name, item, NoneCtx)>>

RECURSIVE ExpandSectionItems(_, _, _)
\* the inner loop of _expand_items from item i on
ExpandSectionItems(section, i, variables) ==
    IF i > Len(section.items) THEN Returned(<<>>)
    ELSE LET item == section.items[i]
             keep == SafeEvalCondition(item.condition, variables)
         IN IF keep = "E" THEN Raised
            ELSE LET rest == ExpandSectionItems(section, i + 1, variables)
                 IN IF ~rest.ok THEN Raised
                    ELSE IF keep = "F" THEN rest
                    ELSE Returned(ExpandItem(section, item) \o rest.items)

RECURSIVE ExpandSections(_, _, _)
\* the outer loop of _expand_items from section i on
ExpandSections(checklist, i, variables) ==
    IF i > Len(checklist.sections) THEN Returned(<<>>)
    ELSE LET section == checklist.sections[i]
             keep == SafeEvalCondition(section.condition, variables)
         IN IF keep = "E" THEN Raised
            ELSE LET here == IF keep = "F" THEN Returned(<<>>)
                             ELSE ExpandSectionItems(section, 1, variables)
                 IN IF ~here.ok THEN Raised
                    ELSE LET rest == ExpandSections(checklist, i + 1, variables)
                         IN IF ~rest.ok THEN Raised ELSE Returned(here.items \o rest.items)

\* _expand_items(checklist, variables)
ExpandItems(checklist, variables) == ExpandSections(checklist, 1, variables)

(***************************************************************************)
(* Checklist digest                                                         *)
(***************************************************************************)
\* a canonical form that keeps the keys of a dict in insertion order
CanonCtxUnsorted(ctx) == ctx

\* json.dumps(..., sort_keys=True) on a matrix entry
CanonCtx(ctx) == Ctx(Sorted(ctx.kv))
CanonItem(item) == [item EXCEPT !.matrix = [k \in 1..Len(item.matrix) |-> CanonCtx(item.matrix[k])]]
CanonSection(section) ==
    [section EXCEPT !.items = [i \in 1..Len(section.items) |-> CanonItem(section.items[i])]]
\* the canonical JSON text of model_dump(mode="json"); a checklist of the model
\* declares one variable, which sorting the keys leaves in place
Canonical(c) == [c EXCEPT !.sections = [i \in 1..Len(c.sections) |-> CanonSection(c.sections[i])]]

\* sha256 of the canonical text: one value per canonical text
Sha256(text) == CHOOSE i \in 1..Len(ChecklistUniverse) :
    /\ Canonical(ChecklistUniverse[i]) = text
    /\ \A j \in 1..(i - 1) : Canonical(ChecklistUniverse[j]) # text

NoDigest == 0
Digests == 1..Len(ChecklistUniverse)

\* a Checklist instance: the validated content and the private _digest_cache
Instance(content) == [content |-> content, digest_cache |-> NoDigest]
NoChecklist == [content |-> 0, digest_cache |-> -1]

\* the digest of every checklist of the model, computed once
DigestTable == [i \in 1..Len(ChecklistUniverse) |-> Sha256(Canonical(Content(i)))]

\* compute_checklist_digest: the value returned
compute_checklist_digest(inst) ==
    IF inst.digest_cache # NoDigest THEN inst.digest_cache
    ELSE DigestTable[inst.content]
\* compute_checklist_digest: the instance afterwards
WithDigestCache(inst) == [inst EXCEPT !.digest_cache = compute_checklist_digest(inst)]

(***************************************************************************)
(* Sessions                                                                 *)
(***************************************************************************)
Results == {"pass", "fail"}
Response(item_id, result, matrix_context) ==
    [item_id |-> item_id, result |-> result, matrix_context |-> matrix_context]

NoSession == [id |-> 0]
Session(id, checklist_id, digest, status, variables, responses, resolved) ==
    [id |-> id, checklist_id |-> checklist_id, checklist_digest |-> digest,
     completed_at |-> (status = "completed"), status |-> status,
     variables |-> variables, responses |-> responses, resolved |-> resolved]

\* {k: str(v) for k, v in variables.items()}
NormalizeVars(variables) ==
    [i \in 1..Len(variables) |-> <<variables[i][1], StrOf(variables[i][2])>>]

\* variable maps as the callers pass them to start
NoVars == <<>>
VarMaps == {NoVars, <<<<"flag", PyTrue>>>>, <<<<"flag", PyStr("True")>>>>}

\* a validate_session_digest that takes a missing digest for a mismatch
ValidateRaisesStrict(session, inst) ==
    session.checklist_digest # compute_checklist_digest(inst)

\* validate_session_digest: TRUE when it raises
ValidateRaises(session, inst) ==
    /\ session.checklist_digest # NoDigest
    /\ session.checklist_digest # compute_checklist_digest(inst)

\* an ensure_session_digest that reports a write on every call
EnsureReturnsAlways(session) == TRUE

\* ensure_session_digest: the value returned
EnsureReturns(session) == session.checklist_digest = NoDigest
\* an ensure_session_digest without the "is None" test
EnsureSessionOverwrite(session, inst) ==
    [session EXCEPT !.checklist_digest = compute_checklist_digest(inst)]

\* ensure_session_digest: the session afterwards
EnsureSession(session, inst) ==
    IF session.checklist_digest = NoDigest
    THEN [session EXCEPT !.checklist_digest = compute_checklist_digest(inst)]
    ELSE session

(***************************************************************************)
(* Expansion cache (ChecklistCache.read_expansion / write_expansion)        *)
(***************************************************************************)
\* the variables of the session files written before digests were tracked
LegacyVars == <<<<"flag", PyStr("True")>>>>
StoredVarMaps == {NormalizeVars(v) : v \in VarMaps}
CacheKeys == {DigestTable[i] : i \in 1..Len(ChecklistUniverse)} \X StoredVarMaps
NoEntry == [present |-> FALSE, items |-> <<>>]
ExpansionItem(r) == [section_name |-> r.section_name, item_id |-> r.item.id,
                     matrix_context |-> r.matrix_context]
ExpansionCacheEntry(items) ==
    [present |-> TRUE, items |-> [i \in 1..Len(items) |-> ExpansionItem(items[i])]]

\* the flat list of the items of a checklist, in document order
RECURSIVE AllItems(_, _)
AllItems(c, i) ==
    IF i > Len(c.sections) THEN <<>> ELSE c.sections[i].items \o AllItems(c, i + 1)

\* _build_item_index: the last item declared with an id is the one indexed
HasItem(c, id) == \E i \in 1..Len(AllItems(c, 1)) : AllItems(c, 1)[i].id = id
ItemById(c, id) ==
    LET all == AllItems(c, 1)
        last == CHOOSE i \in 1..Len(all) :
                    all[i].id = id /\ \A j \in (i + 1)..Len(all) : all[j].id # id
    IN all[last]

\* _variables_digest joined with the checklist digest: the cache signature
Signature(inst, variables) == <<compute_checklist_digest(inst), NormalizeVars(variables)>>

\* _expand_items on every checklist and variable map of the model, computed once
ExpandTable ==
    [i \in 1..Len(ChecklistUniverse) |->
        [v \in VarMaps \cup StoredVarMaps \cup {LegacyVars} |-> ExpandItems(Content(i), v)]]

\* read_expansion on the entry found under the signature: Raised stands for
\* None (no usable entry)
EntryItems(entry, c) ==
    IF ~entry.present THEN Raised
    ELSE IF \E i \in 1..Len(entry.items) : ~HasItem(c, entry.items[i].item_id)
    THEN Raised
    ELSE Returned([i \in 1..Len(entry.items) |->
             ResolvedItem(entry.items[i].section_name,
                          ItemById(c, entry.items[i].item_id),
                          entry.items[i].matrix_context)])

\* ChecklistCache.read_expansion(checklist, variables)
ReadExpansion(cache, inst, variables) ==
    EntryItems(cache[Signature(inst, variables)], Content(inst.content))

\* _expand_items_cached past its first test: the cached value, else the expansion
CachedOr(cached, expanded) == IF cached.ok THEN cached ELSE expanded

\* _expand_items_cached: the value returned (Raised when the expansion raises)
ExpandItemsCached(cache, on, inst, variables) ==
    IF ~on THEN ExpandTable[inst.content][variables]
    ELSE CachedOr(ReadExpansion(cache, inst, variables), ExpandTable[inst.content][variables])

\* write_expansion, called when the cache is on, has no entry and the expansion returned
WriteExpansion(cache, signature, cached, expanded) ==
    IF ~cached.ok /\ expanded.ok
    THEN [cache EXCEPT ![signature] = ExpansionCacheEntry(expanded.items)]
    ELSE cache

\* _expand_items_cached: the cache afterwards
CacheAfterExpand(cache, on, inst, variables) ==
    IF ~on THEN cache
    ELSE WriteExpansion(cache, Signature(inst, variables),
                        ReadExpansion(cache, inst, variables),
                        ExpandTable[inst.content][variables])

\* _expand_items_cached: the checklist instance afterwards (read_expansion
\* computes the digest, which stores it on the instance)
InstAfterExpand(on, inst) == IF on THEN WithDigestCache(inst) ELSE inst

(***************************************************************************)
(* SessionStore: the session files of a directory and the session index    *)
(***************************************************************************)
\* a session id token is a sequence of characters; the code asks for 32
\* characters of [a-f0-9], the model for IdLength of them
IdLength == 2
HexDigits == {"a", "b", "c", "d", "e", "f", "0", "1", "2", "3", "4", "5", "6", "7", "8", "9"}

\* SessionStore._validate_session_id: TRUE when it does not raise ValueError
ValidSessionId(session_id) ==
    /\ Len(session_id) = IdLength
    /\ \A i \in 1..Len(session_id) : session_id[i] \in HexDigits

\* a path of the directory, by the parts of its name
Path(prefix, stem, suffix) == [prefix |-> prefix, stem |-> stem, suffix |-> suffix]
\* SessionStore._path_for, past the validation
PathFor(session_id) == Path("session-", session_id, ".json")

TokA == <<"a", "1">>
TokB == <<"b", "2">>
TokC == <<"c", "3">>
\* tokens the pattern rejects: an upper-case digit, a short token, a name
TokUpper == <<"A", "1">>
TokShort == <<"a">>
TokName == <<"r", "u", "n">>
HexTokens == {TokA, TokB, TokC}
StoreTokens == HexTokens \cup {TokUpper, TokShort, TokName}

\* the files a user keeps next to the session files: an export of a session,
\* a session file with an upper-case suffix, a text file
ExportPath == Path("export-", TokA, ".json")
UpperPath == Path("session-", TokA, ".JSON")
TextPath == Path("session-", TokA, ".txt")
\* the name tempfile.mkstemp makes up in the directory (utils.py:62)
TempPath == Path("tmp", TokName, "")
FilePaths == {PathFor(t) : t \in HexTokens} \cup {ExportPath, UpperPath, TextPath, TempPath}

\* what a path holds: nothing, a directory, or a file of bytes with its mtime
NoFile == [kind |-> "none", bytes |-> <<>>, mtime |-> 0]
Directory == [kind |-> "dir", bytes |-> <<>>, mtime |-> 0]
File(bytes, mtime) == [kind |-> "file", bytes |-> bytes, mtime |-> mtime]
\* bytes that are no JSON of a session
Garbage == [json |-> FALSE]

\* a Response is array_like: it is written as a JSON array
EncodeResponse(r) == <<r.item_id, r.result, r.matrix_context>>
DecodeResponse(a) == Response(a[1], a[2], a[3])

\* encode_session: the JSON object of the session
EncodeSession(s) ==
    [json |-> TRUE, id |-> s.id, checklist_id |-> s.checklist_id,
     checklist_digest |-> s.checklist_digest, completed_at |-> s.completed_at,
     status |-> s.status, variables |-> s.variables,
     responses |-> [i \in 1..Len(s.responses) |-> EncodeResponse(s.responses[i])],
     resolved |-> s.resolved]

\* decode_session on bytes that are the JSON of a session
DecodeSession(b) ==
    [id |-> b.id, checklist_id |-> b.checklist_id, checklist_digest |-> b.checklist_digest,
     completed_at |-> b.completed_at, status |-> b.status, variables |-> b.variables,
     responses |-> [i \in 1..Len(b.responses) |-> DecodeResponse(b.responses[i])],
     resolved |-> b.resolved]

\* the outcome of a call: the exception it raises, or the value it returns
Raises(exc) == [exc |-> exc, ret |-> NoSession]
Returns(value) == [exc |-> "", ret |-> value]

\* path.read_bytes() followed by decode_session
ReadSession(f) ==
    IF f.kind = "none" THEN Raises("OSError")
    ELSE IF f.kind = "dir" THEN Raises("OSError")
    ELSE IF ~f.bytes.json THEN Raises("DecodeError")
    ELSE Returns(DecodeSession(f.bytes))

\* an except clause for I/O errors alone
DecodeCaughtNarrow == {"OSError"}
\* the except clause of load and of the scan (session_store.py:63, 101)
DecodeCaught == {"OSError", "DecodeError", "ValueError", "TypeError"}

\* try: ... except caught: return None
Try(outcome, caught) == IF outcome.exc \in caught THEN Returns(NoSession) ELSE outcome

\* SessionStore.load(session_id)
load(files, session_id) ==
    IF ~ValidSessionId(session_id) THEN Try(Raises("ValueError"), {"ValueError"})
    ELSE IF files[PathFor(session_id)].kind = "none" THEN Returns(NoSession)
    ELSE Try(ReadSession(files[PathFor(session_id)]), DecodeCaught)

\* SessionStore.load_from_path(path): the suffix is compared in lower case
Lower(suffix) == IF suffix = ".JSON" THEN ".json" ELSE suffix
load_from_path(files, path) ==
    IF files[path].kind # "file" THEN Raises("ValueError")
    ELSE IF path.prefix # "session-" \/ Lower(path.suffix) # ".json" THEN Raises("ValueError")
    ELSE ReadSession(files[path])

\* the session index: no file, a file that does not decode, or the entries by
\* session id (NoIndexEntry where the dict has no entry)
NoIndex == [kind |-> "none"]
BadIndex == [kind |-> "bad"]
NoIndexEntry == [present |-> FALSE]
SessionIndexEntry(checklist_id, status, updated_at) ==
    [present |-> TRUE, checklist_id |-> checklist_id, status |-> status,
     updated_at |-> updated_at]
Index(entries) == [kind |-> "entries", entries |-> entries]
NoEntries == [t \in HexTokens |-> NoIndexEntry]

\* SessionStore._scan_sessions: the entries of the files session-*.json that
\* decode, each under the id its session holds, with the file's mtime
ScanEntry(f) ==
    IF Try(ReadSession(f), DecodeCaught).ret = NoSession THEN NoIndexEntry
    ELSE SessionIndexEntry(ReadSession(f).ret.checklist_id, ReadSession(f).ret.status, f.mtime)
\* the session files whose session has the id t (a file holds the session of
\* its name unless a user has put another in its place)
ScanPaths(files, t) ==
    {q \in {PathFor(u) : u \in HexTokens} :
        /\ ScanEntry(files[q]).present
        /\ ReadSession(files[q]).ret.id = t}
_scan_sessions(files) ==
    [t \in HexTokens |->
        IF ScanPaths(files, t) = {} THEN NoIndexEntry
        ELSE ScanEntry(files[CHOOSE q \in ScanPaths(files, t) : TRUE])]

\* SessionStore._load_index: None (FALSE here) or the entries
IndexLoaded(index) == index.kind = "entries"
\* `self._load_index() or self._scan_sessions()`: an empty dict counts as None
IndexOrScan(index, files) ==
    IF IndexLoaded(index) /\ index.entries # NoEntries THEN index.entries
    ELSE _scan_sessions(files)

\* the directory before any session is saved
EmptyStore == [files |-> [q \in FilePaths |-> NoFile], index |-> NoIndex, clock |-> 0]

\* the directory after SessionStore.save(session) past the validation of the
\* id; the write of the index raises OSError or not, and save swallows it
StoreAfterSave(st, s, index_fails) ==
    [files |-> [st.files EXCEPT ![PathFor(s.id)] = File(EncodeSession(s), st.clock + 1)],
     index |-> IF index_fails THEN st.index
               ELSE Index([IndexOrScan(st.index,
                                       [st.files EXCEPT ![PathFor(s.id)] =
                                            File(EncodeSession(s), st.clock + 1)])
                           EXCEPT ![s.id] = SessionIndexEntry(s.checklist_id, s.status,
                                                              st.clock + 1)]),
     clock |-> st.clock + 1]

\* the entries find_latest_in_progress works on
FindEntries(st) == IF IndexLoaded(st.index) THEN st.index.entries ELSE _scan_sessions(st.files)
\* its candidates (session_store.py:139-143)
Candidates(entries, checklist_id) ==
    {t \in HexTokens :
        /\ entries[t].present
        /\ entries[t].checklist_id = checklist_id
        /\ entries[t].status = "in_progress"}
\* candidates[0] after the sort by updated_at, latest first
Latest(entries, candidates) ==
    CHOOSE t \in candidates : \A u \in candidates : entries[u].updated_at <= entries[t].updated_at
\* SessionStore.find_latest_in_progress(checklist_id)
find_latest_in_progress(st, checklist_id) ==
    IF Candidates(FindEntries(st), checklist_id) = {} THEN Returns(NoSession)
    ELSE load(st.files, Latest(FindEntries(st), Candidates(FindEntries(st), checklist_id)))

(***************************************************************************)
(* State                                                                    *)
(***************************************************************************)
VARIABLES
    file,       \* the content of the checklist file
    cl,         \* the Checklist instance the process has loaded
    cacheOn,    \* whether the engine was built with a ChecklistCache
    xcache,     \* the expansion cache directory
    state,      \* ExecutionEngine._state
    session,    \* the Session object the engine state wraps
    loaded,     \* a Session object the caller holds, not (yet) given to the engine
    disk,       \* the session files of the output directory, by session id
    nextId,     \* the next fresh session id
    born,       \* history: per session id, the checklist and items of its start
    last,       \* the last operation and its outcome
    call,       \* a call of a pure function: its arguments and, once made, its result
    store,      \* the directory of a SessionStore: its files, its index, the clock
    answers     \* the responses of the answers file a command was given

vars == <<file, cl, cacheOn, xcache, state, session, loaded, disk, nextId, born, last, call, store, answers>>

NoState == [started |-> FALSE, checklist |-> 0, items |-> <<>>, current_index |-> 0]
EngineState(checklist, items, current_index) ==
    [started |-> TRUE, checklist |-> checklist, items |-> items, current_index |-> current_index]

Outcome(op, ok, ret) == [op |-> op, ok |-> ok, ret |-> ret]

SessionIds == 1..MaxSessions

\* EngineState.current_item: <<>> stands for None
current_item(st) ==
    IF st.current_index >= Len(st.items) THEN <<>> ELSE <<st.items[st.current_index + 1]>>

\* the responses a caller following current_item records for the first k items
Answers(items, k) ==
    [i \in 1..k |-> Response(items[i].item.id, "pass", items[i].matrix_context)]

\* a session file written before digests were tracked: an in-progress run of
\* the checklist c with flag: "True", its first item answered, without a
\* stored digest and without a snapshot
LegacySession(c) ==
    Session(1, ChecklistId(c), NoDigest, "in_progress", NormalizeVars(LegacyVars),
            Answers(ExpandItems(c, LegacyVars).items, 1), FALSE)

NoBirth == [legacy |-> FALSE, checklist |-> 0, items |-> <<>>]
Birth(legacy, checklist, items) == [legacy |-> legacy, checklist |-> checklist, items |-> items]

\* an answers file without responses, or no answers file
NoAnswers == <<>>

\* no pure function call is under check
NoCall == [fn |-> "none", args |-> <<>>, done |-> FALSE, out |-> <<>>]

\* the program before its first command
InitProgram ==
    /\ file = IndexOf(CBase)
    /\ cl = NoChecklist
    /\ cacheOn \in BOOLEAN
    /\ xcache = [key \in CacheKeys |-> NoEntry]
    /\ state = NoState
    /\ session = NoSession
    /\ loaded = NoSession
    /\ \/ /\ disk = [i \in SessionIds |-> NoSession]
          /\ nextId = 1
          /\ born = [i \in SessionIds |-> NoBirth]
       \/ /\ disk = [i \in SessionIds |-> IF i = 1 THEN LegacySession(CBase) ELSE NoSession]
          /\ born = [i \in SessionIds |->
                        IF i = 1 THEN Birth(TRUE, IndexOf(CBase), ExpandItems(CBase, LegacyVars).items)
                        ELSE NoBirth]
          /\ nextId = 2
    /\ last = Outcome("init", TRUE, FALSE)
    /\ store = EmptyStore
    /\ answers = NoAnswers

Init == InitProgram /\ call = NoCall

(***************************************************************************)
(* The checklist file and its loader                                        *)
(***************************************************************************)
\* no command is running: the objects of the last one are gone
Idle == cl = NoChecklist /\ session = NoSession /\ loaded = NoSession

\* the user edits the checklist file, once, into one of its later versions; a
\* running command holds the checklist it has loaded, so an edit shows at the
\* next load only
EditFile ==
    /\ Idle
    /\ file = Head(FileVersions)
    /\ \E i \in DOMAIN Tail(FileVersions) : file' = Tail(FileVersions)[i]
    /\ last' = Outcome("edit", TRUE, FALSE)
    /\ UNCHANGED <<cl, cacheOn, xcache, state, session, loaded, disk, nextId, born, call, store, answers>>

\* YamlChecklistLoader.load: a new Checklist instance of the file's content
LoadChecklist ==
    /\ cl = NoChecklist
    /\ cl' = Instance(file)
    /\ last' = Outcome("load_checklist", TRUE, FALSE)
    /\ UNCHANGED <<file, cacheOn, xcache, state, session, loaded, disk, nextId, born, call, store, answers>>

(***************************************************************************)
(* ExecutionEngine                                                          *)
(***************************************************************************)
\* ExecutionEngine.start past the expansion, which returned x
StartWith(variables, x) ==
    IF ~x.ok
    THEN /\ cl' = InstAfterExpand(cacheOn, cl)
         /\ last' = Outcome("start", FALSE, FALSE)
         /\ UNCHANGED <<xcache, state, session, nextId, born, call, store, answers>>
    ELSE /\ xcache' = CacheAfterExpand(xcache, cacheOn, cl, variables)
         /\ session' = EnsureSession(
                Session(nextId, ChecklistId(Content(cl.content)), NoDigest, "in_progress",
                        NormalizeVars(variables), <<>>, TRUE), cl)
         /\ cl' = WithDigestCache(cl)
         /\ state' = EngineState(cl.content, x.items, 0)
         /\ nextId' = nextId + 1
         /\ born' = [born EXCEPT ![nextId] = Birth(FALSE, cl.content, x.items)]
         /\ last' = Outcome("start", TRUE, FALSE)

\* ExecutionEngine.start(checklist, variables, checklist_path)
Start(variables) ==
    /\ cl # NoChecklist
    /\ nextId <= MaxSessions
    /\ session = NoSession /\ loaded = NoSession
    /\ StartWith(variables, ExpandItemsCached(xcache, cacheOn, cl, variables))
    /\ UNCHANGED <<file, cacheOn, loaded, disk, call, store, answers>>

\* the loop of engine.py:191-196: TRUE when every stored response matches
ResponsesMatch(responses, items) ==
    \A i \in 1..Len(responses) :
        /\ responses[i].item_id = items[i].item.id
        /\ matrix_key(responses[i].matrix_context) = matrix_key(items[i].matrix_context)

\* the checks of resume on the items x the expansion returned: TRUE when none raises
Accepts(s, inst, x) ==
    /\ ~ValidateRaises(s, inst)
    /\ x.ok
    /\ Len(s.responses) <= Len(x.items)
    /\ ResponsesMatch(s.responses, x.items)

\* ExecutionEngine.resume(checklist, session): TRUE when it returns normally
ResumeAccepts(cache, on, inst, s) ==
    Accepts(s, inst, ExpandItemsCached(cache, on, inst, s.variables))

\* a resume that reopens the session it accepts
ResumedSessionReopen(s, accepted) ==
    IF accepted THEN [s EXCEPT !.resolved = TRUE, !.status = "in_progress", !.completed_at = FALSE]
    ELSE s

\* a resume that stores the snapshot before it has checked the responses
ResumedSessionEager(s, accepted) == [s EXCEPT !.resolved = TRUE]

\* the session object after resume: the snapshot is stored once every check
\* has passed (engine.py:198-201)
ResumedSession(s, accepted) == IF accepted THEN [s EXCEPT !.resolved = TRUE] ELSE s

\* the engine state after resume
ResumedState(st, accepted, checklist, items, s) ==
    IF accepted THEN EngineState(checklist, items, Len(s.responses)) ELSE st

\* resume on the session s with the items x, accepted or not
ResumeWith(own, s, x, accepted) ==
    /\ cl' = WithDigestCache(cl)
    /\ xcache' = IF ValidateRaises(s, cl) THEN xcache
                  ELSE CacheAfterExpand(xcache, cacheOn, cl, s.variables)
    /\ state' = ResumedState(state, accepted, cl.content, x.items, s)
    /\ session' = IF own \/ accepted THEN ResumedSession(s, accepted) ELSE session
    /\ loaded' = IF own THEN loaded
                  ELSE IF accepted THEN NoSession
                  ELSE ResumedSession(s, accepted)
    /\ last' = Outcome("resume", accepted, FALSE)

\* the session resume is called with: the one the caller holds (own = FALSE)
\* or the one the engine already wraps (own = TRUE)
Resumed(own) == IF own THEN session ELSE loaded

\* ExecutionEngine.resume(checklist, session)
Resume(own) ==
    /\ cl # NoChecklist
    /\ Resumed(own) # NoSession
    /\ ResumeWith(own, Resumed(own),
                  ExpandItemsCached(xcache, cacheOn, cl, Resumed(own).variables),
                  ResumeAccepts(xcache, cacheOn, cl, Resumed(own)))
    /\ UNCHANGED <<file, cacheOn, disk, nextId, born, call, store, answers>>

\* a with_response that appends the response and keeps the index
with_response_stay(st) == st

\* EngineState.with_response
with_response(st) == [st EXCEPT !.current_index = st.current_index + 1]

\* ExecutionEngine.record_response(item, result, notes, evidence, matrix_context)
RecordResponse(item, result, matrix_context) ==
    /\ state.started
    /\ Len(session.responses) < MaxResponses
    /\ session' = [session EXCEPT !.responses = Append(@, Response(item.id, result, matrix_context))]
    /\ state' = with_response(state)
    /\ last' = Outcome("record_response", TRUE, FALSE)
    /\ UNCHANGED <<file, cl, cacheOn, xcache, loaded, disk, nextId, born, call, store, answers>>

\* a with_back that pops the response and keeps the index
with_back_keep(st) == st

\* EngineState.with_back, past its guard
with_back(st) == [st EXCEPT !.current_index = st.current_index - 1]

\* a pop that takes the oldest response
PopFirst(responses) == IF Len(responses) > 0 THEN Tail(responses) ELSE responses

\* the response list after with_back's pop
PopLast(responses) ==
    IF Len(responses) > 0 THEN SubSeq(responses, 1, Len(responses) - 1) ELSE responses

\* ExecutionEngine.go_back()
GoBack ==
    /\ state.started
    /\ IF state.current_index = 0
       THEN /\ last' = Outcome("go_back", FALSE, FALSE)
            /\ UNCHANGED <<state, session, call, store, answers>>
       ELSE /\ session' = [session EXCEPT !.responses = PopLast(@)]
            /\ state' = with_back(state)
            /\ last' = Outcome("go_back", TRUE, FALSE)
    /\ UNCHANGED <<file, cl, cacheOn, xcache, loaded, disk, nextId, born, call, store, answers>>

\* a with_completed that completes only a session with an answer
with_completed_answered(s) ==
    IF Len(s.responses) = 0 THEN s ELSE [s EXCEPT !.completed_at = TRUE, !.status = "completed"]

\* EngineState.with_completed: the session afterwards
with_completed(s) == [s EXCEPT !.completed_at = TRUE, !.status = "completed"]

\* ExecutionEngine.complete()
Complete ==
    /\ state.started
    /\ session' = with_completed(session)
    /\ last' = Outcome("complete", TRUE, FALSE)
    /\ UNCHANGED <<file, cl, cacheOn, xcache, state, loaded, disk, nextId, born, call, store, answers>>

\* ExecutionEngine.save(): SessionStore.save of the wrapped session
Save ==
    /\ state.started
    /\ disk' = [disk EXCEPT ![session.id] = session]
    /\ last' = Outcome("save", TRUE, FALSE)
    /\ UNCHANGED <<file, cl, cacheOn, xcache, state, session, loaded, nextId, born, call, store, answers>>

(***************************************************************************)
(* Session storage and the digest guard, as a caller of the library uses   *)
(* them.  A process works on one session: it starts one, or loads one and  *)
(* resumes it, and a report runs between two such processes (one process,  *)
(* one in-progress session at a time).                                      *)
(***************************************************************************)
\* SessionStore.load / load_from_path: decode the file into a new Session object
\* (a command loads its checklist before it looks for a session)
LoadSession(id) ==
    /\ cl # NoChecklist
    /\ disk[id] # NoSession
    /\ session = NoSession /\ loaded = NoSession
    /\ loaded' = disk[id]
    /\ last' = Outcome("load_session", TRUE, FALSE)
    /\ UNCHANGED <<file, cl, cacheOn, xcache, state, session, disk, nextId, born, call, store, answers>>

\* SessionStore.save(session) of the session the caller holds: run_command
\* saves it when ensure_session_digest has returned true
SaveLoaded ==
    /\ loaded # NoSession
    /\ last.op = "ensure_session_digest" /\ last.ret
    /\ disk' = [disk EXCEPT ![loaded.id] = loaded]
    /\ last' = Outcome("save_loaded", TRUE, FALSE)
    /\ UNCHANGED <<file, cl, cacheOn, xcache, state, session, loaded, nextId, born, call, store, answers>>

\* ensure_session_digest(session, checklist)
EnsureSessionDigest ==
    /\ cl # NoChecklist
    /\ loaded # NoSession
    /\ loaded' = EnsureSession(loaded, cl)
    /\ cl' = WithDigestCache(cl)
    /\ last' = Outcome("ensure_session_digest", TRUE, EnsureReturns(loaded))
    /\ UNCHANGED <<file, cacheOn, xcache, state, session, disk, nextId, born, call, store, answers>>

\* validate_session_digest(session, checklist)
ValidateSessionDigest ==
    /\ cl # NoChecklist
    /\ loaded # NoSession
    /\ cl' = WithDigestCache(cl)
    /\ last' = Outcome("validate_session_digest", ~ValidateRaises(loaded, cl), FALSE)
    /\ UNCHANGED <<file, cacheOn, xcache, state, session, loaded, disk, nextId, born, call, store, answers>>

\* report_command on the session file of id, run as a command of its own: it
\* loads the session and the checklist file, validates the digest, binds a
\* session without digest to the checklist and rewrites its file
Report(id) ==
    /\ Idle
    /\ disk[id] # NoSession
    /\ IF ValidateRaises(disk[id], Instance(file))
       THEN /\ last' = Outcome("report", FALSE, FALSE)
            /\ UNCHANGED disk
       ELSE IF disk[id].checklist_digest = NoDigest
       THEN /\ disk' = [disk EXCEPT ![id].checklist_digest = compute_checklist_digest(Instance(file))]
            /\ last' = Outcome("report", TRUE, TRUE)
       ELSE /\ last' = Outcome("report", TRUE, FALSE)
            /\ UNCHANGED disk
    /\ UNCHANGED <<file, cl, cacheOn, xcache, state, session, loaded, nextId, born, call, store, answers>>

\* the process exits: its objects are gone, the files stay
Exit ==
    /\ ~Idle
    /\ cl' = NoChecklist
    /\ state' = NoState
    /\ session' = NoSession
    /\ loaded' = NoSession
    /\ last' = Outcome("exit", TRUE, FALSE)
    /\ UNCHANGED <<file, cacheOn, xcache, disk, nextId, born, call, store, answers>>

\* what a caller passes to record_response as (item, matrix_context): the
\* current item and its context, as run_command does; a caller that goes on
\* after the last item has no current item to pass and passes one it holds
CallerArgs ==
    IF current_item(state) = <<>> THEN {<<ItemA, NoneCtx>>}
    ELSE {<<current_item(state)[1].item, current_item(state)[1].matrix_context>>}
\* the results such a caller passes
CallerResults == {"pass"}

Next ==
    \/ EditFile
    \/ LoadChecklist
    \/ \E v \in VarMaps : Start(v)
    \/ \E own \in BOOLEAN : Resume(own)
    \/ \E args \in CallerArgs, result \in CallerResults :
          RecordResponse(args[1], result, args[2])
    \/ GoBack
    \/ Complete
    \/ Save
    \/ \E id \in SessionIds : LoadSession(id)
    \/ SaveLoaded
    \/ EnsureSessionDigest
    \/ ValidateSessionDigest
    \/ \E id \in SessionIds : Report(id)
    \/ Exit

Spec == Init /\ [][Next]_vars

(***************************************************************************)
(* The engine under a caller of the library that does not follow           *)
(* current_item: record_response takes the item it is given                *)
(***************************************************************************)
\* record_response with an item of the caller's choice, whatever the current
\* item is
RecordAny == \E result \in CallerResults : RecordResponse(ItemA, result, NoneCtx)

NextLibrary ==
    \/ Next
    \/ RecordAny

SpecLibrary == Init /\ [][NextLibrary]_vars

(***************************************************************************)
(* The engine next to dry runs, which expand through the same cache        *)
(***************************************************************************)
\* run_command with --dry-run, a command of its own: it loads the checklist
\* file, expands it through the cache with the variables of the answers file
\* and exits
DryRun(variables) ==
    /\ Idle
    /\ xcache' = CacheAfterExpand(xcache, cacheOn, Instance(file), variables)
    /\ last' = Outcome("dry_run",
                       ExpandItemsCached(xcache, cacheOn, Instance(file), variables).ok, FALSE)
    /\ UNCHANGED <<file, cl, cacheOn, state, session, loaded, disk, nextId, born, call, store, answers>>

NextCache ==
    \/ Next
    \/ \E v \in VarMaps : DryRun(v)

SpecCache == Init /\ [][NextCache]_vars

(***************************************************************************)
(* _expand_items on its own: the call is drawn from checklists built of up *)
(* to MaxSections sections, and made                                       *)
(***************************************************************************)
\* items with a condition of their own, and an item whose matrix lists one
\* entry twice
ItemC == ChecklistItem("c", "third check", FlagIsTrue, <<>>)
ItemD == ChecklistItem("d", "fourth check", FlagIsTrue, <<CtxChrome, CtxLinux>>)
ItemE == ChecklistItem("e", "fifth check", NoCond, <<CtxChrome, CtxChrome>>)

\* conditions that are configuration errors: a string ast.parse rejects
\* ("flag ==", node kind "syntax"), a function call ("f()") and a reference
\* to a variable no caller resolves ("other")
BadSyntax == Node("syntax", "", PyNone, <<>>, <<>>)
CallF == Node("call", "f", PyNone, <<>>, <<>>)
\* items whose own condition is a configuration error
ItemF == ChecklistItem("f", "sixth check", Name("other"), <<>>)
ItemG == ChecklistItem("g", "seventh check", CallF, <<>>)
ItemH == ChecklistItem("h", "eighth check", BadSyntax, <<>>)

ExpandItemLists ==
    {<<ItemA>>, <<ItemB>>, <<ItemE>>, <<ItemC, ItemB, ItemA>>, <<ItemD, ItemA>>,
     <<ItemA, ItemF>>, <<ItemG>>, <<ItemH, ItemA>>}
ExpandSectionPool ==
    {ChecklistSection("Always", NoCond, items) : items \in ExpandItemLists}
    \cup {ChecklistSection("Flag", FlagIsTrue, items) : items \in ExpandItemLists}
    \cup {ChecklistSection("Broken", BadSyntax, <<ItemA>>)}
ExpandChecklists ==
    {Checklist("Audit", "1", <<FlagVar>>, sections) :
        sections \in UNION {[1..n -> ExpandSectionPool] : n \in 1..MaxSections}}
ExpandVars == VarMaps \cup {<<<<"flag", PyFalse>>>>}

Call(fn, args) == [fn |-> fn, args |-> args, done |-> FALSE, out |-> <<>>]

InitExpand ==
    /\ InitProgram
    /\ call \in {Call("expand", <<c, v>>) : c \in ExpandChecklists, v \in ExpandVars}

\* _expand_items(checklist, variables)
ApplyExpand ==
    /\ call.fn = "expand" /\ ~call.done
    /\ call' = [call EXCEPT !.done = TRUE, !.out = ExpandItems(call.args[1], call.args[2])]
    /\ UNCHANGED <<file, cl, cacheOn, xcache, state, session, loaded, disk, nextId, born, last, store, answers>>

NextExpand == ApplyExpand

SpecExpand == InitExpand /\ [][NextExpand]_vars

(***************************************************************************)
(* _safe_eval_condition on its own: the call is drawn from condition trees *)
(* and variable maps, and made.  Beside its result the call yields the     *)
(* names _eval looked up in the variables, in the order of the code.       *)
(***************************************************************************)
Not(operand) == Node("not", "", PyNone, <<>>, <<operand>>)
BoolOp(op, values) == Node(op, "", PyNone, <<>>, values)
ListOf(elts) == Node("list", "", PyNone, <<>>, elts)
\* 1 + 1
BinOp == Node("binop", "", PyNone, <<"+">>, <<Const(Val("num", "1")), Const(Val("num", "1"))>>)
\* flag.upper
Attribute == Node("attr", "upper", PyNone, <<>>, <<Name("flag")>>)

RECURSIVE NodeReads(_, _)
RECURSIVE SeqReads(_, _, _)
RECURSIVE CompareReads(_, _, _, _)
\* the names looked up while the elements from i on are evaluated in turn,
\* up to the first that raises (engine.py:53, 88)
SeqReads(nodes, i, variables) ==
    IF i > Len(nodes) THEN {}
    ELSE NodeReads(nodes[i], variables)
         \cup (IF EvalNode(nodes[i], variables).t = "err" THEN {}
               ELSE SeqReads(nodes, i + 1, variables))

\* the names looked up by the loop of engine.py:63-80 from comparator i on
CompareReads(node, i, left, variables) ==
    IF i > Len(node.ops) THEN {}
    ELSE NodeReads(node.args[i + 1], variables)
         \cup (IF EvalCompare([node EXCEPT !.ops = <<node.ops[i]>>,
                                            !.args = <<node.args[i], node.args[i + 1]>>],
                              1, left, variables) = PyTrue
               THEN CompareReads(node, i + 1, EvalNode(node.args[i + 1], variables), variables)
               ELSE {})

\* the names _eval looks up in the variables (engine.py:82)
NodeReads(node, variables) ==
    CASE node.k \in {"and", "or", "list", "not"} -> SeqReads(node.args, 1, variables)
      [] node.k = "cmp" ->
            NodeReads(node.args[1], variables)
            \cup (IF EvalNode(node.args[1], variables).t = "err" THEN {}
                  ELSE CompareReads(node, 1, EvalNode(node.args[1], variables), variables))
      [] node.k = "name" -> {node.name}
      [] OTHER -> {}

\* the names looked up by a call of _safe_eval_condition
SafeEvalReads(condition, variables) ==
    IF condition.k \in {"none", "syntax"} \/ ~AllAllowed(condition) THEN {}
    ELSE NodeReads(condition, variables)

ConditionPool ==
    {NoCond, BadSyntax, CallF, BinOp, Attribute,
     Name("flag"), Not(Name("flag")), FlagIsTrue,
     Compare(Name("flag"), <<"in">>, <<ListOf(<<Const(PyTrue), Const(PyStr("True"))>>)>>),
     Compare(Name("flag"), <<"not in">>, <<Const(PyStr("True"))>>),
     Compare(Name("flag"), <<"!=">>, <<Name("other")>>),
     BoolOp("and", <<Name("flag"), Name("other")>>),
     BoolOp("or", <<Const(PyTrue), Name("other")>>),
     Compare(Const(PyStr("a")), <<"==", "==">>, <<Const(PyStr("b")), Name("other")>>),
     Compare(Const(PyStr("a")), <<"==", "==">>, <<Const(PyStr("b")), CallF>>),
     BoolOp("or", <<Name("flag"), BinOp>>),
     Not(Attribute),
     Compare(Name("flag"), <<"<">>, <<Const(PyStr("a"))>>),
     BoolOp("and", <<Compare(Name("flag"), <<"is">>, <<Const(PyNone)>>), FlagIsTrue>>),
     ListOf(<<Name("flag"), CallF>>),
     Compare(Const(PyStr("a")), <<"!=", "!=">>, <<Const(PyStr("b")), Const(PyStr("a"))>>),
     Compare(Name("flag"), <<"==", "==">>, <<Name("flag"), Name("other")>>),
     Compare(Name("flag"), <<"==", "!=">>, <<Const(PyTrue), Name("flag")>>),
     Compare(Name("flag"), <<"!=", "in">>, <<Const(PyStr("")), ListOf(<<Const(PyStr(""))>>)>>),
     Compare(Name("other"), <<"==", "==">>, <<Name("flag"), Name("flag")>>),
     Compare(Name("flag"), <<"in">>, <<Const(PyStr("True"))>>),
     Compare(Name("flag"), <<"not in">>, <<ListOf(<<Const(PyTrue), Const(PyStr(""))>>)>>),
     Compare(Const(PyStr("True")), <<"in">>, <<Name("flag")>>),
     Compare(Const(PyNone), <<"not in">>, <<Name("flag")>>)}
\* the variable flag absent, null, empty, and with a value
ConditionVars ==
    ExpandVars \cup {<<<<"flag", PyNone>>>>, <<<<"flag", PyStr("")>>>>}

InitCondition ==
    /\ InitProgram
    /\ call \in {Call("eval", <<c, v>>) : c \in ConditionPool, v \in ConditionVars}

\* _safe_eval_condition(condition, variables)
ApplyEval ==
    /\ call.fn = "eval" /\ ~call.done
    /\ call' = [call EXCEPT !.done = TRUE,
                            !.out = [r |-> SafeEvalCondition(call.args[1], call.args[2]),
                                     read |-> SafeEvalReads(call.args[1], call.args[2])]]
    /\ UNCHANGED <<file, cl, cacheOn, xcache, state, session, loaded, disk, nextId, born, last, store, answers>>

NextCondition == ApplyEval

SpecCondition == InitCondition /\ [][NextCondition]_vars

(***************************************************************************)
(* matrix_key on its own: the call is drawn from pairs of contexts (None,  *)
(* the empty dict, and dicts over two keys in either insertion order), and *)
(* made on both                                                            *)
(***************************************************************************)
MatrixKeys == {"browser", "os"}
MatrixValues == {"chrome", "linux"}
MatrixContexts ==
    {NoneCtx, Ctx(<<>>)}
    \cup {Ctx(<<<<k, v>>>>) : k \in MatrixKeys, v \in MatrixValues}
    \cup {Ctx(<<<<k1, v1>>, <<k2, v2>>>>) :
            <<k1, k2>> \in {<<"browser", "os">>, <<"os", "browser">>},
            v1 \in MatrixValues, v2 \in MatrixValues}

InitMatrix ==
    /\ InitProgram
    /\ call \in {Call("matrix_key", <<a, b>>) : a \in MatrixContexts, b \in MatrixContexts}

\* matrix_key(a) and matrix_key(b)
ApplyMatrixKey ==
    /\ call.fn = "matrix_key" /\ ~call.done
    /\ call' = [call EXCEPT !.done = TRUE,
                            !.out = <<matrix_key(call.args[1]), matrix_key(call.args[2])>>]
    /\ UNCHANGED <<file, cl, cacheOn, xcache, state, session, loaded, disk, nextId, born, last, store, answers>>

NextMatrix == ApplyMatrixKey

SpecMatrix == InitMatrix /\ [][NextMatrix]_vars

(***************************************************************************)
(* SessionStore on its own: sessions of two checklists are saved into one  *)
(* directory, the write of the index failing or not, and looked up         *)
(***************************************************************************)
OtherChecklistId == <<"other", "1">>
StoreChecklistIds == {ChecklistId(CBase), OtherChecklistId}
\* the checklist a session id of the pool belongs to
StoreChecklistOf(t) == IF t = TokC THEN OtherChecklistId ELSE ChecklistId(CBase)
\* the session of a token in a status: one answer while in progress, all
\* three (two of them with a matrix context) once completed
StoreSession(t, status) ==
    Session(t, StoreChecklistOf(t), DigestTable[IndexOf(CBase)], status,
            NormalizeVars(LegacyVars),
            IF status = "in_progress" THEN <<Response("a", "pass", NoneCtx)>>
            ELSE <<Response("a", "pass", NoneCtx), Response("b", "fail", CtxChrome),
                   Response("b", "skip", CtxLinux)>>,
            TRUE)
StoreSessions == {StoreSession(t, status) : t \in HexTokens \cup {TokUpper, TokName},
                                             status \in {"in_progress", "completed"}}

\* the outcome of a call on the store, with its argument
StoreOutcome(op, arg, out) ==
    [op |-> op, ok |-> out.exc = "", ret |-> out.ret, exc |-> out.exc, arg |-> arg]

\* SessionStore.save(session)
StoreSave(s, index_fails) ==
    /\ store.clock < MaxSaves
    /\ IF ~ValidSessionId(s.id)
       THEN /\ last' = StoreOutcome("store.save", s, Raises("ValueError"))
            /\ UNCHANGED store
       ELSE /\ store' = StoreAfterSave(store, s, index_fails)
            /\ last' = StoreOutcome("store.save", s, Returns(PathFor(s.id)))
    /\ UNCHANGED <<file, cl, cacheOn, xcache, state, session, loaded, disk, nextId, born, call, answers>>

\* SessionStore.find_latest_in_progress(checklist_id): without an index it
\* scans the files and writes the index, swallowing a failure of the write
FindLatest(checklist_id, index_fails) ==
    /\ store' = IF IndexLoaded(store.index) \/ index_fails THEN store
                 ELSE [store EXCEPT !.index = Index(_scan_sessions(store.files))]
    /\ last' = StoreOutcome("store.find_latest_in_progress", checklist_id,
                            find_latest_in_progress(store, checklist_id))
    /\ UNCHANGED <<file, cl, cacheOn, xcache, state, session, loaded, disk, nextId, born, call, answers>>

\* SessionStore.load(session_id)
StoreLoad(session_id) ==
    /\ last' = StoreOutcome("store.load", session_id, load(store.files, session_id))
    /\ UNCHANGED <<file, cl, cacheOn, xcache, state, session, loaded, disk, nextId, born, call, store, answers>>

\* one directory, and no engine beside it
InitStore == Init /\ ~cacheOn /\ nextId = 1

NextStore ==
    \/ \E s \in StoreSessions, index_fails \in BOOLEAN : StoreSave(s, index_fails)
    \/ \E c \in StoreChecklistIds, index_fails \in BOOLEAN : FindLatest(c, index_fails)
    \/ \E t \in StoreTokens : StoreLoad(t)

SpecStore == InitStore /\ [][NextStore]_vars

(***************************************************************************)
(* The files of a session directory under a user who also damages, copies  *)
(* and replaces them, and the two ways to load one                         *)
(***************************************************************************)
\* the session the user works on
FileSessions == {StoreSession(TokA, "in_progress"), StoreSession(TokA, "completed")}

\* a file is overwritten with bytes that are not a session, or a directory
\* takes its place
Damage(q, f) ==
    /\ store' = [store EXCEPT !.files[q] = f]
    /\ last' = Outcome("damage", TRUE, FALSE)
    /\ UNCHANGED <<file, cl, cacheOn, xcache, state, session, loaded, disk, nextId, born, call, answers>>

\* the index file is overwritten with bytes that do not decode
DamageIndex ==
    /\ store.index # BadIndex
    /\ store' = [store EXCEPT !.index = BadIndex]
    /\ last' = Outcome("damage_index", TRUE, FALSE)
    /\ UNCHANGED <<file, cl, cacheOn, xcache, state, session, loaded, disk, nextId, born, call, answers>>

\* the user copies a session file under another name
CopyFile(from, to) ==
    /\ store.files[from].kind = "file"
    /\ store' = [store EXCEPT !.files[to] = store.files[from]]
    /\ last' = Outcome("copy", TRUE, FALSE)
    /\ UNCHANGED <<file, cl, cacheOn, xcache, state, session, loaded, disk, nextId, born, call, answers>>

\* SessionStore.load_from_path(path)
LoadFromPath(q) ==
    /\ last' = StoreOutcome("store.load_from_path", q, load_from_path(store.files, q))
    /\ UNCHANGED <<file, cl, cacheOn, xcache, state, session, loaded, disk, nextId, born, call, store, answers>>

NextFiles ==
    \/ \E s \in FileSessions : StoreSave(s, FALSE)
    \/ \E q \in {PathFor(TokA), TextPath}, f \in {File(Garbage, 0), Directory} : Damage(q, f)
    \/ DamageIndex
    \/ \E to \in {ExportPath, UpperPath, TextPath} : CopyFile(PathFor(TokA), to)
    \/ \E t \in StoreTokens : StoreLoad(t)
    \/ \E q \in FilePaths : LoadFromPath(q)

SpecFiles == InitStore /\ [][NextFiles]_vars

(***************************************************************************)
(* run_command, interactive: the command starts a session or resumes the   *)
(* in-progress one, then prompts for each item in turn; a KeyboardInterrupt *)
(* can arrive anywhere inside the try block of the loop (run.py:264-313).   *)
(* The position of the command is read from the last operation.             *)
(***************************************************************************)
\* the head of the while loop (run.py:267): the session was just saved, or
\* just resumed
AtLoopHead ==
    /\ state.started /\ session # NoSession /\ session.status = "in_progress"
    /\ last.op \in {"save", "resume"} /\ last.ok
\* ask_item_response is waiting for the user (run.py:273)
AtPrompt == AtLoopHead /\ current_item(state) # <<>>

\* loader.load(checklist) at the start of a command (run.py:131)
RunLoadChecklist == Idle /\ LoadChecklist
\* engine.start with the variables asked from the user (run.py:210-217)
RunStart == last.op = "load_checklist" /\ \E v \in VarMaps : Start(v)
\* store.find_latest_in_progress of the checklist's id (run.py:181)
RunFind ==
    /\ last.op = "load_checklist"
    /\ \E id \in SessionIds :
          /\ disk[id] # NoSession
          /\ disk[id].status = "in_progress"
          /\ disk[id].checklist_id = ChecklistId(Content(cl.content))
          /\ LoadSession(id)
\* ensure_session_digest, and the save that follows when it returns true
\* (run.py:185-186)
RunEnsure == last.op = "load_session" /\ EnsureSessionDigest
\* engine.resume (run.py:188)
RunResume ==
    /\ last.op = "save_loaded" \/ (last.op = "ensure_session_digest" /\ ~last.ret)
    /\ Resume(FALSE)
\* a run that goes on as if it had saved, without writing the file
RunSaveSkip ==
    /\ last.op \in {"start", "record_response", "go_back", "complete"} /\ last.ok
    /\ state.started
    /\ last' = Outcome("save", TRUE, FALSE)
    /\ UNCHANGED <<file, cl, cacheOn, xcache, state, session, loaded, disk, nextId, born, call, store, answers>>
\* engine.save() after start, after record_response and after go_back
\* (run.py:218, 299, 280), and store.save after complete (run.py:315)
RunSave ==
    /\ last.op \in {"start", "record_response", "go_back", "complete"} /\ last.ok
    /\ Save
\* the user answers the item shown (run.py:290-298)
RunAnswer ==
    /\ AtPrompt
    /\ \E result \in Results :
          RecordResponse(current_item(state)[1].item, result,
                         current_item(state)[1].matrix_context)
\* the user types back, which the prompt offers past the first item
\* (run.py:272, 278-279)
RunBack == AtPrompt /\ state.current_index > 0 /\ GoBack
\* a run that completes the session at the head of the loop, items left or not
RunCompleteEarly == AtLoopHead /\ Complete
\* the loop has ended (run.py:305)
RunComplete == AtLoopHead /\ current_item(state) = <<>> /\ Complete

\* the statements of the try block a KeyboardInterrupt can follow
InTry ==
    /\ state.started /\ session # NoSession
    /\ AtLoopHead \/ (last.op \in {"record_response", "go_back", "complete"} /\ last.ok)
\* KeyboardInterrupt inside the try block: the handler reports the response
\* count of the session in memory and exits with status 0 (run.py:306-313)
Interrupt ==
    /\ InTry
    /\ last' = [op |-> "interrupt", ok |-> TRUE, ret |-> Len(session.responses),
                at |-> last.op, prompt |-> AtPrompt]
    /\ UNCHANGED <<file, cl, cacheOn, xcache, state, session, loaded, disk, nextId, born, call, store, answers>>

\* the command ends: typer.Exit, or the end of run_command
RunExit ==
    /\ \/ last.op \in {"interrupt", "load_checklist"}
       \/ last.op \in {"start", "resume"} /\ ~last.ok
       \/ last.op = "save" /\ session.status = "completed"
    /\ Exit

NextRun ==
    \/ RunLoadChecklist
    \/ RunStart
    \/ RunFind
    \/ RunEnsure
    \/ SaveLoaded
    \/ RunResume
    \/ RunSave
    \/ RunAnswer
    \/ RunBack
    \/ RunComplete
    \/ Interrupt
    \/ RunExit

SpecRun == Init /\ [][NextRun]_vars

(***************************************************************************)
(* The engine object inside one process, under every call a caller of the  *)
(* library can make on it: any item and any result, and calls made before  *)
(* the engine has a state                                                  *)
(***************************************************************************)
\* the operations that read ExecutionEngine.state
EngineOps == {"state", "current_item", "record_response", "go_back", "complete", "save"}

\* an engine whose save returns normally without a state
UnstartedLenient(op) ==
    /\ ~state.started
    /\ last' = Outcome(op, op = "save", FALSE)
    /\ UNCHANGED <<file, cl, cacheOn, xcache, state, session, loaded, disk, nextId, born, call, store, answers>>

\* an operation called while _state is None: the state property raises
\* RuntimeError before the operation has done anything
Unstarted(op) ==
    /\ ~state.started
    /\ last' = Outcome(op, FALSE, FALSE)
    /\ UNCHANGED <<file, cl, cacheOn, xcache, state, session, loaded, disk, nextId, born, call, store, answers>>

\* the (item, matrix_context) pairs a caller may pass
AnyArgs == {<<ItemA, NoneCtx>>, <<ItemB, CtxLinux>>} \cup CallerArgs

NextEngine ==
    \/ LoadChecklist
    \/ \E v \in VarMaps : Start(v)
    \/ \E id \in SessionIds : LoadSession(id)
    \/ \E own \in BOOLEAN : Resume(own)
    \/ \E args \in AnyArgs, result \in Results : RecordResponse(args[1], result, args[2])
    \/ GoBack
    \/ Complete
    \/ \E op \in EngineOps : Unstarted(op)

SpecEngine == Init /\ [][NextEngine]_vars

(***************************************************************************)
(* The digest as a function of checklist values: the file takes any        *)
(* content, instances of it are loaded and digested, sessions are bound to *)
(* them                                                                     *)
(***************************************************************************)
\* the user rewrites the checklist file with any other content
EditAny ==
    /\ \E c \in 1..Len(ChecklistUniverse) : c # file /\ file' = c
    /\ last' = Outcome("edit", TRUE, FALSE)
    /\ UNCHANGED <<cl, cacheOn, xcache, state, session, loaded, disk, nextId, born, call, store, answers>>

\* compute_checklist_digest(checklist) on the instance the process holds
ComputeDigest ==
    /\ cl # NoChecklist
    /\ cl' = WithDigestCache(cl)
    /\ last' = Outcome("compute_checklist_digest", TRUE, FALSE)
    /\ UNCHANGED <<file, cacheOn, xcache, state, session, loaded, disk, nextId, born, call, store, answers>>

NextDigest ==
    \/ EditAny
    \/ LoadChecklist
    \/ ComputeDigest
    \/ \E v \in VarMaps : Start(v)
    \/ Save
    \/ \E id \in SessionIds : LoadSession(id)
    \/ ValidateSessionDigest
    \/ Exit

SpecDigest == Init /\ [][NextDigest]_vars

(***************************************************************************)
(* run_command with --no-interactive: the command starts a session, saves  *)
(* it, answers every item from the answers file, completes the session and *)
(* saves it (run.py:198-262, 315).  response_map is kept as the entries of *)
(* the file in their order: response_map[id] is the subsequence of the      *)
(* entries with that item id, and a pop takes the entry out.                *)
(***************************************************************************)
\* an entry of the responses list of the answers file; matrix is NoneCtx when
\* the entry has no "matrix" key, result is "" when it has no "result" key
AnswerEntry(item_id, matrix, result) == [item_id |-> item_id, matrix |-> matrix, result |-> result]

EntryPool ==
    {AnswerEntry("a", NoneCtx, "pass"), AnswerEntry("a", NoneCtx, ""),
     AnswerEntry("b", CtxChrome, "pass"), AnswerEntry("b", CtxLinuxPerm, "fail"),
     AnswerEntry("b", NoneCtx, "pass"), AnswerEntry("z", CtxChrome, "fail")}
AnswerFiles == {<<e>> : e \in EntryPool} \cup {<<e, f>> : e \in EntryPool, f \in EntryPool}

\* _parse_result(value)
_parse_result(value) ==
    IF value \in {"pass", "p"} THEN "pass"
    ELSE IF value \in {"fail", "f"} THEN "fail"
    ELSE "skip"

\* the truth value of a matrix context: None and the empty dict are false
CtxTruthy(ctx) == ~ctx.none /\ Len(ctx.kv) > 0

\* the entries the loop body may take for the resolved item r (run.py:231-239)
Takeable(map, r) ==
    {i \in 1..Len(map) :
        /\ map[i].item_id = r.item.id
        /\ CtxTruthy(r.matrix_context) =>
              matrix_key(map[i].matrix) = matrix_key(r.matrix_context)}

\* the position in response_map of the entry popped for r: the first one the
\* loop body may take, 0 when entry stays None
PickEntry(map, r) ==
    IF Takeable(map, r) = {} THEN 0
    ELSE CHOOSE i \in Takeable(map, r) : \A j \in Takeable(map, r) : i <= j

\* response_map[...].pop(idx)
Pop(map, i) ==
    IF i = 0 THEN map ELSE SubSeq(map, 1, i - 1) \o SubSeq(map, i + 1, Len(map))

RECURSIVE MapAt(_, _, _)
\* response_map when the for loop reaches the item of index k: the entries
\* of the file without those popped for the items before it
MapAt(items, k, map) ==
    IF k = 0 THEN map
    ELSE Pop(MapAt(items, k - 1, map), PickEntry(MapAt(items, k - 1, map), items[k]))

\* the result recorded for r out of map (run.py:240)
EntryResult(map, r) ==
    _parse_result(IF PickEntry(map, r) = 0 THEN "" ELSE map[PickEntry(map, r)].result)

\* the user writes the answers file before the command runs
WriteAnswers ==
    /\ Idle
    /\ last.op \in {"init", "edit"}
    /\ answers = NoAnswers
    /\ answers' \in AnswerFiles
    /\ last' = Outcome("edit", TRUE, FALSE)
    /\ UNCHANGED <<file, cl, cacheOn, xcache, state, session, loaded, disk, nextId, born, call, store>>

\* the user writes the checklist file before the command runs
WriteChecklist == Idle /\ last.op \in {"init", "edit"} /\ EditAny

\* inside the for loop (run.py:229): the session was saved after start, or the
\* body has just recorded a response
InBatchLoop ==
    /\ state.started /\ session # NoSession /\ session.status = "in_progress"
    /\ last.op \in {"save", "record_response"} /\ last.ok

\* one pass of the loop body (run.py:230-249)
BatchStep ==
    /\ InBatchLoop
    /\ current_item(state) # <<>>
    /\ RecordResponse(current_item(state)[1].item,
                      EntryResult(MapAt(state.items, state.current_index, answers),
                                  current_item(state)[1]),
                      current_item(state)[1].matrix_context)

\* engine.save() after start and store.save after complete (run.py:218, 315)
BatchSave == last.op \in {"start", "complete"} /\ last.ok /\ Save

\* engine.complete() after the loop (run.py:255)
BatchComplete == InBatchLoop /\ current_item(state) = <<>> /\ Complete

NextBatch ==
    \/ WriteChecklist
    \/ WriteAnswers
    \/ RunLoadChecklist
    \/ RunStart
    \/ BatchSave
    \/ BatchStep
    \/ BatchComplete
    \/ RunExit

\* no session file is in the output directory yet
InitBatch == Init /\ nextId = 1

SpecBatch == InitBatch /\ [][NextBatch]_vars

(***************************************************************************)
(* report_command on the session files of earlier runs, the checklist file *)
(* edited or not in between                                                *)
(***************************************************************************)
ReportFormats == {"html", "json", "md", "markdown"}

\* what report_command leaves behind: the exit status (ok: 0), whether the
\* report file was written (ret), the session it was given and the message
\* of its refusal
ReportOutcome(id, refusal) ==
    [op |-> "report_command", ok |-> refusal = "", ret |-> refusal = "", id |-> id,
     refusal |-> refusal]

\* a report_command that takes no session for unbound
DigestMissingNever(s) == FALSE

\* report_command: the test of report.py:92
DigestMissing(s) == s.checklist_digest = NoDigest

\* the session file after report.py:92-99
ReportedFile(s, inst) ==
    IF DigestMissing(s) THEN [s EXCEPT !.checklist_digest = compute_checklist_digest(inst)]
    ELSE s

\* report_command(session_path, format, checklist_path, output_path, overwrite)
\* on the session file of id; output_free: the output path does not exist, or
\* --overwrite was given
ReportCommand(id, format, output_free) ==
    /\ Idle
    /\ disk[id] # NoSession
    /\ IF ValidateRaises(disk[id], Instance(file))
       THEN /\ last' = ReportOutcome(id, "mismatch")
            /\ UNCHANGED disk
       ELSE /\ disk' = [disk EXCEPT ![id] = ReportedFile(disk[id], Instance(file))]
            /\ last' = ReportOutcome(id, IF format \notin ReportFormats THEN "format"
                                         ELSE IF ~output_free THEN "exists"
                                         ELSE "")
    /\ UNCHANGED <<file, cl, cacheOn, xcache, state, session, loaded, nextId, born, call, store, answers>>

NextReport ==
    \/ EditFile
    \/ LoadChecklist
    \/ \E v \in VarMaps : Start(v)
    \/ \E args \in CallerArgs, result \in CallerResults :
          RecordResponse(args[1], result, args[2])
    \/ Complete
    \/ Save
    \/ Exit
    \/ \E id \in SessionIds, format \in {"html", "pdf"}, output_free \in BOOLEAN :
          ReportCommand(id, format, output_free)

SpecReport == Init /\ [][NextReport]_vars

(***************************************************************************)
(* run_command on its three paths (dry run, fresh start, resume) up to its  *)
(* end, when engine.start, engine.resume or the expansion of the dry run    *)
(* raises ValueError                                                        *)
(***************************************************************************)
\* the calls of run_command made inside a try block that catches ValueError,
\* prints it and raises typer.Exit(code=1): engine.start (run.py:211-221) and
\* engine.resume (run.py:187-191); _expand_items_cached of the dry run
\* (run.py:157) is outside of any
CaughtInRun == {"start", "resume"}

\* run_command ends on the ValueError of the call it has just made: with
\* typer.Exit(1) when the call is in a try block, with the ValueError itself
\* when it is not
RunFail ==
    /\ last.op \in {"dry_run", "start", "resume"}
    /\ ~last.ok
    /\ cl' = NoChecklist
    /\ state' = NoState
    /\ session' = NoSession
    /\ loaded' = NoSession
    /\ last' = [op |-> "run_command", ok |-> FALSE,
                ret |-> IF last.op \in CaughtInRun THEN "Exit(1)" ELSE "ValueError",
                path |-> last.op]
    /\ UNCHANGED <<file, cacheOn, xcache, disk, nextId, born, call, store, answers>>

\* run_command ends without an error
RunEndsWell == last.ok /\ RunExit

NextErrors ==
    \/ EditFile
    \/ \E v \in VarMaps : DryRun(v)
    \/ RunLoadChecklist
    \/ RunStart
    \/ RunFind
    \/ RunEnsure
    \/ SaveLoaded
    \/ RunResume
    \/ RunSave
    \/ RunAnswer
    \/ RunComplete
    \/ RunFail
    \/ RunEndsWell

SpecErrors == Init /\ [][NextErrors]_vars

(***************************************************************************)
(* run_command, interactive and never interrupted: every statement of the  *)
(* command is executed in its turn and every prompt is answered, by a      *)
(* result or by "back"                                                      *)
(***************************************************************************)
NextRunLive ==
    \/ WriteChecklist
    \/ RunLoadChecklist
    \/ RunStart
    \/ RunFind
    \/ RunEnsure
    \/ SaveLoaded
    \/ RunResume
    \/ RunSave
    \/ RunAnswer
    \/ RunBack
    \/ RunComplete
    \/ RunExit

SpecRunLive == Init /\ [][NextRunLive]_vars /\ WF_vars(NextRunLive)

(***************************************************************************)
(* atomic_write_bytes, step by step (core/utils.py:60-70): the directory   *)
(* is `store`, the call and its arguments are `call`, the step the call    *)
(* has passed is `last`. Every step that touches the file system can raise *)
(* OSError. One temporary name is followed: a call begins while no         *)
(* temporary file of an earlier call is left in the directory.             *)
(***************************************************************************)
\* the paths and the bytes the calls are made with (session_store.py:80)
AwTargets == {PathFor(TokA), PathFor(TokB)}
AwData == {EncodeSession(StoreSession(TokA, status)) : status \in {"in_progress", "completed"}}

\* the call has passed the step op and has neither returned nor raised
InAw(op) == call.fn = "atomic_write_bytes" /\ ~call.done /\ last.op = op

\* the call returns or raises
AwEnd(out) == [call EXCEPT !.done = TRUE, !.out = out]

\* atomic_write_bytes(path, data) is called
AwBegin(path, data) ==
    /\ call = NoCall \/ call.done
    /\ store.clock < MaxSaves
    /\ store.files[TempPath] = NoFile
    /\ call' = Call("atomic_write_bytes", <<path, data>>)
    /\ last' = Outcome("atomic_write_bytes", TRUE, "called")
    /\ UNCHANGED <<file, cl, cacheOn, xcache, state, session, loaded, disk, nextId, born, store, answers>>

\* path.parent.mkdir(...) and tempfile.mkstemp(dir=...), ahead of the try:
\* a failure leaves the call with nothing created; otherwise the directory
\* holds an empty temporary file
AwMkstemp(fails) ==
    /\ InAw("atomic_write_bytes")
    /\ IF fails
       THEN /\ call' = AwEnd("raised")
            /\ last' = Outcome("mkstemp", FALSE, "OSError")
            /\ UNCHANGED store
       ELSE /\ store' = [store EXCEPT !.files[TempPath] = File(Garbage, store.clock + 1),
                                      !.clock = store.clock + 1]
            /\ last' = Outcome("mkstemp", TRUE, TempPath)
            /\ UNCHANGED call
    /\ UNCHANGED <<file, cl, cacheOn, xcache, state, session, loaded, disk, nextId, born, answers>>

\* a write that goes to the target itself
AwWriteInPlace(fails) ==
    /\ InAw("mkstemp")
    /\ last.ok
    /\ store' = [store EXCEPT !.files[call.args[1]] =
                     File(IF fails THEN Garbage ELSE call.args[2], store.clock)]
    /\ last' = Outcome("write", ~fails, IF fails THEN "OSError" ELSE TempPath)
    /\ UNCHANGED <<file, cl, cacheOn, xcache, state, session, loaded, disk, nextId, born, call, answers>>

\* with os.fdopen(fd, "wb") as handle: handle.write(data): the temporary
\* file holds the data, or a prefix of it (bytes that decode to nothing)
\* when the write or the close raises
AwWrite(fails) ==
    /\ InAw("mkstemp")
    /\ last.ok
    /\ store' = [store EXCEPT !.files[TempPath] =
                     File(IF fails THEN Garbage ELSE call.args[2], store.clock)]
    /\ last' = Outcome("write", ~fails, IF fails THEN "OSError" ELSE TempPath)
    /\ UNCHANGED <<file, cl, cacheOn, xcache, state, session, loaded, disk, nextId, born, call, answers>>

\* Path(temp_path).replace(path): one rename, or OSError and no change
AwReplace(fails) ==
    /\ InAw("write")
    /\ last.ok
    /\ IF fails
       THEN /\ last' = Outcome("replace", FALSE, "OSError")
            /\ UNCHANGED store
       ELSE /\ store' = [store EXCEPT !.files[call.args[1]] = store.files[TempPath],
                                      !.files[TempPath] = NoFile]
            /\ last' = Outcome("replace", TRUE, call.args[1])
    /\ UNCHANGED <<file, cl, cacheOn, xcache, state, session, loaded, disk, nextId, born, call, answers>>

\* finally: if os.path.exists(temp_path): with suppress(OSError):
\* os.unlink(temp_path); then the call returns, or the exception of the try
\* block goes on to the caller
AwFinally(unlink_fails) ==
    /\ \/ InAw("write") /\ ~last.ok
       \/ InAw("replace")
    /\ IF store.files[TempPath] = NoFile
       THEN /\ last' = Outcome("finally", TRUE, IF last.ok THEN "returned" ELSE "raised")
            /\ UNCHANGED store
       ELSE /\ store' = IF unlink_fails THEN store
                        ELSE [store EXCEPT !.files[TempPath] = NoFile]
            /\ last' = Outcome("unlink", ~unlink_fails, IF last.ok THEN "returned" ELSE "raised")
    /\ call' = AwEnd(IF last.ok THEN "returned" ELSE "raised")
    /\ UNCHANGED <<file, cl, cacheOn, xcache, state, session, loaded, disk, nextId, born, answers>>

NextAtomic ==
    \/ \E path \in AwTargets, data \in AwData : AwBegin(path, data)
    \/ \E fails \in BOOLEAN : AwMkstemp(fails)
    \/ \E fails \in BOOLEAN : AwWrite(fails)
    \/ \E fails \in BOOLEAN : AwReplace(fails)
    \/ \E unlink_fails \in BOOLEAN : AwFinally(unlink_fails)

SpecAtomic == Init /\ [][NextAtomic]_vars

(***************************************************************************)
(* Vocabulary of the properties                                             *)
(***************************************************************************)
\* the Session object of the running process
Arg == IF session # NoSession THEN session ELSE loaded

\* digest(checklist): the hash of the canonical text of the instance's content
digest(inst) == Sha256(Canonical(Content(inst.content)))

\* two dicts are equal when they hold the same pairs, in any order
DictEq(a, b) ==
    /\ a.none = b.none
    /\ {a.kv[i] : i \in 1..Len(a.kv)} = {b.kv[i] : i \in 1..Len(b.kv)}

ItemEq(a, b) ==
    /\ a.id = b.id /\ a.check = b.check /\ a.condition = b.condition
    /\ Len(a.matrix) = Len(b.matrix)
    /\ \A k \in 1..Len(a.matrix) : DictEq(a.matrix[k], b.matrix[k])

SectionEq(a, b) ==
    /\ a.name = b.name /\ a.condition = b.condition
    /\ Len(a.items) = Len(b.items)
    /\ \A i \in 1..Len(a.items) : ItemEq(a.items[i], b.items[i])

\* two checklist values have the same content
SameContent(a, b) ==
    /\ a.name = b.name /\ a.version = b.version /\ a.variables = b.variables
    /\ Len(a.sections) = Len(b.sections)
    /\ \A i \in 1..Len(a.sections) : SectionEq(a.sections[i], b.sections[i])

\* two sequences of resolved items are equal, a matrix context being a dict
ItemsEq(a, b) ==
    /\ Len(a) = Len(b)
    /\ \A i \in 1..Len(a) :
          /\ a[i].section_name = b[i].section_name
          /\ ItemEq(a[i].item, b[i].item)
          /\ DictEq(a[i].matrix_context, b[i].matrix_context)

\* the expansion as the specification words it: the slots (section, item,
\* matrix entry) of the kept items of the kept sections, in document order
RefSlots(c, v) ==
    UNION {UNION {{<<s, i, k>> :
                      k \in 1..(IF Len(c.sections[s].items[i].matrix) = 0 THEN 1
                                ELSE Len(c.sections[s].items[i].matrix))} :
                  i \in {i \in 1..Len(c.sections[s].items) :
                            SafeEvalCondition(c.sections[s].items[i].condition, v) = "T"}} :
           s \in {s \in 1..Len(c.sections) : SafeEvalCondition(c.sections[s].condition, v) = "T"}}

\* document order of two slots
RefBefore(t, u) ==
    \/ t[1] < u[1]
    \/ t[1] = u[1] /\ t[2] < u[2]
    \/ t[1] = u[1] /\ t[2] = u[2] /\ t[3] < u[3]

RefResolved(c, t) ==
    [section_name |-> c.sections[t[1]].name,
     item |-> c.sections[t[1]].items[t[2]],
     matrix_context |-> IF Len(c.sections[t[1]].items[t[2]].matrix) = 0 THEN NoneCtx
                        ELSE c.sections[t[1]].items[t[2]].matrix[t[3]]]

RefExpand(c, v) ==
    [j \in 1..Cardinality(RefSlots(c, v)) |->
        RefResolved(c, CHOOSE t \in RefSlots(c, v) :
                           Cardinality({u \in RefSlots(c, v) : RefBefore(u, t)}) = j - 1)]

\* every condition the walk evaluates is true or false
RefDefined(c, v) ==
    \A s \in 1..Len(c.sections) :
        /\ SafeEvalCondition(c.sections[s].condition, v) # "E"
        /\ SafeEvalCondition(c.sections[s].condition, v) = "T" =>
              \A i \in 1..Len(c.sections[s].items) :
                  SafeEvalCondition(c.sections[s].items[i].condition, v) # "E"

\* the responses answer the first items of the sequence, one by one
AnswersPrefix(responses, items) ==
    /\ Len(responses) <= Len(items)
    /\ \A i \in 1..Len(responses) :
          /\ responses[i].item_id = items[i].item.id
          /\ responses[i].matrix_context = items[i].matrix_context

(***************************************************************************)
(* Properties                                                               *)
(***************************************************************************)
\* C1: whatever the caller does, the response list of the session the engine
\* wraps is never longer than the engine's expanded item sequence.
C1_ResponsesWithinItems ==
    state.started => Len(session.responses) <= Len(state.items)

\* C2: in every engine state the responses are a positional prefix of the
\* expanded items: response i answers item i, by item id and by matrix key.
C2_ResponsesArePrefix ==
    state.started =>
        \A i \in 1..Len(session.responses) :
            /\ i <= Len(state.items)
            /\ session.responses[i].item_id = state.items[i].item.id
            /\ matrix_key(session.responses[i].matrix_context)
                  = matrix_key(state.items[i].matrix_context)

\* C3: while the engine has a state, current_index is the number of responses;
\* record_response appends at position current_index and go_back removes the
\* response at position current_index - 1.
C3_IndexIsResponseCount ==
    [][/\ state'.started => state'.current_index = Len(session'.responses)
       /\ last'.op = "record_response" =>
             /\ Len(session'.responses) = state.current_index + 1
             /\ SubSeq(session'.responses, 1, state.current_index) = session.responses
       /\ last'.op = "go_back" /\ last'.ok =>
             session'.responses = SubSeq(session.responses, 1, state.current_index - 1)]_vars

C3_Witness ==
    /\ state.started /\ last.op = "go_back" /\ last.ok
    /\ state.current_index = 1 /\ Len(session.responses) = 1

\* the three conditions of C4, on the freshly expanded items
C4Cond(s, inst) ==
    LET x == ExpandItems(Content(inst.content), s.variables)
    IN /\ s.checklist_digest = NoDigest \/ s.checklist_digest = digest(inst)
       /\ x.ok
       /\ Len(s.responses) <= Len(x.items)
       /\ ResponsesMatch(s.responses, x.items)

\* C4: resume succeeds exactly when the stored digest is absent or equal to the
\* checklist's, the responses are no more than the freshly expanded items, and
\* every response matches the fresh item at its position; on success
\* current_index is the number of responses and current_item the first
\* unanswered fresh item.
C4_ResumeContract ==
    [][last'.op = "resume" =>
          /\ last'.ok <=> C4Cond(Arg, cl)
          /\ last'.ok =>
                LET x == ExpandItems(Content(cl.content), Arg.variables)
                IN /\ state'.current_index = Len(session'.responses)
                   /\ current_item(state') =
                        IF Len(Arg.responses) < Len(x.items)
                        THEN <<x.items[Len(Arg.responses) + 1]>> ELSE <<>>]_vars

\* C5: a session made by start, advanced on its current items, saved and
\* loaded, is accepted by resume against the same checklist content, with
\* current_index the number of responses and the items computed at start;
\* against a checklist of another content resume fails.
C5_StartedSessionResumes ==
    [][/\ last'.op = "resume"
       /\ loaded # NoSession
       /\ ~born[loaded.id].legacy
       /\ AnswersPrefix(loaded.responses, born[loaded.id].items)
       => IF SameContent(Content(cl.content), Content(born[loaded.id].checklist))
          THEN /\ last'.ok
               /\ state'.current_index = Len(session'.responses)
               /\ state'.items = born[loaded.id].items
          ELSE ~last'.ok]_vars

\* C6: a resume that raises modifies neither the session nor the engine state
\* (nor any session file).
C6_ResumeAllOrNothing ==
    [][last'.op = "resume" /\ ~last'.ok => UNCHANGED <<state, session, loaded, disk, call, store, answers>>]_vars

C6_Witness == last.op = "resume" /\ ~last.ok /\ state.started

\* C7: a checklist_digest that is set is never assigned another value, in the
\* session object of the process and in the session file.
C7_DigestSetOnce ==
    [][/\ \A id \in SessionIds :
             disk[id] # NoSession /\ disk[id].checklist_digest # NoDigest
             => disk'[id] # NoSession /\ disk'[id].checklist_digest = disk[id].checklist_digest
       /\ Arg # NoSession /\ Arg.checklist_digest # NoDigest /\ Arg' # NoSession /\ Arg'.id = Arg.id
             => Arg'.checklist_digest = Arg.checklist_digest]_vars

C7_Witness ==
    /\ last.op = "ensure_session_digest"
    /\ loaded.checklist_digest # NoDigest
    /\ loaded.checklist_digest # digest(cl)

\* C8: ensure_session_digest writes digest(checklist) and returns true exactly
\* when the session had no digest; otherwise it changes nothing and returns
\* false; a second call changes nothing and returns false.
C8_EnsureFirstWriteWins ==
    [][last'.op = "ensure_session_digest" =>
          /\ last'.ret = (loaded.checklist_digest = NoDigest)
          /\ loaded' = IF loaded.checklist_digest = NoDigest
                       THEN [loaded EXCEPT !.checklist_digest = digest(cl)]
                       ELSE loaded
          /\ EnsureSession(loaded', cl') = loaded'
          /\ ~EnsureReturns(loaded')]_vars

C8_Witness ==
    last.op = "ensure_session_digest" /\ last.ret /\ loaded.checklist_digest = digest(cl)

\* C9: validate_session_digest raises exactly when the session has a digest
\* that differs from digest(checklist), and never modifies the session.
C9_ValidateContract ==
    [][last'.op = "validate_session_digest" =>
          /\ (~last'.ok) = (loaded.checklist_digest # NoDigest
                            /\ loaded.checklist_digest # digest(cl))
          /\ UNCHANGED <<loaded, session, disk, call, store, answers>>]_vars

C9_Witness == last.op = "validate_session_digest" /\ ~last.ok

\* C10: a repeated call on an instance returns the same digest, and two
\* checklist instances, either with its digest already cached or not, have equal
\* digests exactly when they have the same content.
C10_DigestStableAndSensitive ==
    cl # NoChecklist =>
        LET fresh == Instance(file)
        IN /\ compute_checklist_digest(WithDigestCache(cl)) = compute_checklist_digest(cl)
           /\ \A a \in {cl, WithDigestCache(cl)}, b \in {fresh, WithDigestCache(fresh)} :
                 (compute_checklist_digest(a) = compute_checklist_digest(b))
                 <=> SameContent(Content(a.content), Content(b.content))

C10_Witness ==
    /\ last.op = "compute_checklist_digest"
    /\ cl.digest_cache # NoDigest
    /\ cl.content # file
    /\ SameContent(Content(cl.content), Content(file))

\* C11: once a session is COMPLETED no operation sets its status back to
\* IN_PROGRESS or clears completed_at, in the session object and in its file.
C11_NoLeaveCompleted ==
    [][/\ Arg # NoSession /\ Arg.status = "completed" /\ Arg' # NoSession /\ Arg'.id = Arg.id
             => Arg'.status = "completed" /\ Arg'.completed_at
       /\ \A id \in SessionIds :
             disk[id] # NoSession /\ disk[id].status = "completed"
             => disk'[id] # NoSession /\ disk'[id].status = "completed" /\ disk'[id].completed_at]_vars

C11_Witness ==
    /\ last.op = "resume" /\ last.ok
    /\ session.status = "completed" /\ session.completed_at
    /\ Len(session.responses) > 0

\* C12: right after a successful start or resume the wrapped session is
\* IN_PROGRESS, whatever session resume has accepted.
C12_ActiveIsInProgress ==
    [][last'.op \in {"start", "resume"} /\ last'.ok => session'.status = "in_progress"]_vars

\* C13: a successful start(checklist, variables, path) wraps a new session
\* with an id no session has, IN_PROGRESS, completed_at null, no responses,
\* the variables in string form and digest(checklist), in an engine state with
\* current_index 0 and the items expand(checklist, variables).
C13_StartContract ==
    [][\A v \in VarMaps :
          Start(v) /\ last'.ok =>
             /\ disk[session'.id] = NoSession /\ born[session'.id] = NoBirth
             /\ session'.status = "in_progress" /\ ~session'.completed_at
             /\ session'.responses = <<>>
             /\ session'.variables = NormalizeVars(v)
             /\ session'.checklist_digest = digest(cl)
             /\ state'.started /\ state'.current_index = 0
             /\ ExpandItems(Content(cl.content), v).ok
             /\ ItemsEq(state'.items, ExpandItems(Content(cl.content), v).items)]_vars

C15_GoBackContract ==
    [][last'.op = "go_back" /\ state.started =>
          IF state.current_index = 0
          THEN ~last'.ok /\ UNCHANGED <<state, session, loaded, disk, call, store, answers>>
          ELSE /\ last'.ok
               /\ Len(session.responses) > 0
               /\ session'.responses = SubSeq(session.responses, 1, Len(session.responses) - 1)
               /\ [session' EXCEPT !.responses = session.responses] = session
               /\ state' = [state EXCEPT !.current_index = state.current_index - 1]
               /\ current_item(state') # <<>>
               /\ current_item(state')[1].item.id =
                     session.responses[Len(session.responses)].item_id
               /\ matrix_key(current_item(state')[1].matrix_context) =
                     matrix_key(session.responses[Len(session.responses)].matrix_context)]_vars

C17_CompleteContract ==
    [][last'.op = "complete" /\ state.started =>
          /\ last'.ok
          /\ session'.status = "completed" /\ session'.completed_at
          /\ session'.responses = session.responses
          /\ state' = state]_vars

C17_Witness ==
    /\ last.op = "complete" /\ last.ok
    /\ session.status = "completed"
    /\ session.responses = <<>>
    /\ Len(state.items) > 0

\* C18: while the engine has no state, every operation that reads the state
\* raises, writes no session file and leaves the engine without a state.
C18_NoStateNoOperation ==
    [][~state.started /\ last'.op \in EngineOps =>
          /\ ~last'.ok
          /\ ~state'.started
          /\ UNCHANGED <<state, session, loaded, disk, call, store, answers>>]_vars

C18_Witness ==
    /\ last.op = "save" /\ ~last.ok
    /\ ~state.started
    /\ cl # NoChecklist

\* C19: whenever the conditions evaluate, expand(checklist, variables) returns
\* the reference sequence (kept sections in document order, their kept items
\* in document order, one resolved item per matrix entry in matrix order, one
\* with a null context for an item without matrix), and a second call returns
\* the same.
C19_ExpandIsReference ==
    call.fn = "expand" /\ call.done /\ RefDefined(call.args[1], call.args[2]) =>
        /\ call.out.ok
        /\ call.out.items = RefExpand(call.args[1], call.args[2])
        /\ ExpandItems(call.args[1], call.args[2]) = call.out

C19_Witness ==
    /\ call.fn = "expand" /\ call.done /\ call.out.ok
    /\ \E s \in 1..Len(call.args[1].sections) :
          SafeEvalCondition(call.args[1].sections[s].condition, call.args[2]) = "F"
    /\ \E s \in 1..Len(call.args[1].sections) :
          /\ SafeEvalCondition(call.args[1].sections[s].condition, call.args[2]) = "T"
          /\ \E i \in 1..Len(call.args[1].sections[s].items) :
                SafeEvalCondition(call.args[1].sections[s].items[i].condition, call.args[2]) = "F"
    /\ \E j \in 1..Len(call.out.items) : ~call.out.items[j].matrix_context.none
    /\ \E j \in 1..Len(call.out.items) : call.out.items[j].matrix_context.none

\* the conditions a checklist holds, of its sections and of their items
ConditionsOf(c) ==
    {c.sections[s].condition : s \in 1..Len(c.sections)}
    \cup UNION {{c.sections[s].items[i].condition : i \in 1..Len(c.sections[s].items)} :
                   s \in 1..Len(c.sections)}

\* a condition that is a configuration error under the variables: the string
\* does not parse, the tree holds a node outside the allow-list, or it
\* evaluates to an error (a referenced variable is unresolved)
ConfigurationError(condition, v) == SafeEvalCondition(condition, v) = "E"

\* C21: if any section or item condition of the checklist is a configuration
\* error (malformed, forbidden syntax, unresolved variable), expand(checklist,
\* variables) raises and yields no items.
C21_ConfigErrorIsFatal ==
    call.fn = "expand" /\ call.done
    /\ (\E cond \in ConditionsOf(call.args[1]) : ConfigurationError(cond, call.args[2]))
    => ~call.out.ok /\ call.out.items = <<>>

\* the kinds of the nodes of a condition tree, operators included
RECURSIVE NodeKinds(_)
NodeKinds(node) ==
    {node.k} \cup {node.ops[i] : i \in 1..Len(node.ops)}
    \cup UNION {NodeKinds(node.args[i]) : i \in 1..Len(node.args)}

\* the allow-list as the specification words it: boolean and / or, unary
\* not, ==, !=, in, not in, name reference, literal, list / tuple literal
SpecAllowList ==
    {"and", "or", "not", "cmp", "==", "!=", "in", "not in", "name", "const", "list"}

\* the names a condition tree refers to
RECURSIVE NamesOf(_)
NamesOf(node) ==
    (IF node.k = "name" THEN {node.name} ELSE {})
    \cup UNION {NamesOf(node.args[i]) : i \in 1..Len(node.args)}

\* the name is absent from the mapping, or its value is null or empty
Unresolved(variables, name) ==
    \/ ~DictHas(variables, name)
    \/ DictGet(variables, name) \in {PyNone, PyStr("")}

\* C22: evaluating a condition that references a variable name that is absent
\* from the variable mapping, or whose value is null or empty, is an
\* evaluation error and never a falsy (or any boolean) result.
C22_UnresolvedIsError ==
    call.fn = "eval" /\ call.done /\ NodeKinds(call.args[1]) \subseteq SpecAllowList
    /\ (\E n \in NamesOf(call.args[1]) : Unresolved(call.args[2], n))
    => call.out.r = "E"

\* the tree holds a node kind outside the allow-list
Disallowed(condition) ==
    condition.k \notin {"none", "syntax"} /\ ~(NodeKinds(condition) \subseteq SpecAllowList)

\* C23: the evaluator fails closed: a condition whose parsed tree holds any
\* node kind outside the allow-list (arithmetic, a call, attribute access)
\* raises under every variable mapping, before any sub-expression is
\* evaluated (no variable is looked up), and never returns a boolean.
C23_FailsClosed ==
    call.fn = "eval" /\ call.done /\ Disallowed(call.args[1])
    => call.out.r = "E" /\ call.out.read = {}

\* a forbidden node sits behind a comparison that already failed, where an
\* evaluator that checked nodes as it met them would answer False
C23_Witness ==
    /\ call.fn = "eval" /\ call.done /\ call.out.r = "E"
    /\ call.args[1] = Compare(Const(PyStr("a")), <<"==", "==">>, <<Const(PyStr("b")), CallF>>)

\* the set of (key, value) pairs a mapping holds
PairSet(m) == {m.kv[i] : i \in 1..Len(m.kv)}

\* C24: matrix_key is order-independent and separates "no context" from every
\* context: two mappings get the same key exactly when they hold the same set
\* of (key, value) pairs, whatever the insertion order, and matrix_key(None)
\* differs from the key of every mapping, the empty mapping included.
C24_MatrixKeyCanonical ==
    call.fn = "matrix_key" /\ call.done =>
        /\ ~call.args[1].none /\ ~call.args[2].none =>
              (call.out[1] = call.out[2] <=> PairSet(call.args[1]) = PairSet(call.args[2]))
        /\ call.args[1].none /\ ~call.args[2].none => call.out[1] # call.out[2]
        /\ call.args[1].none => call.out[1] = NoneCtx

\* the same two pairs inserted in the two orders
C24_Witness ==
    /\ call.fn = "matrix_key" /\ call.done
    /\ call.args[1] = CtxLinux /\ call.args[2] = CtxLinuxPerm
    /\ call.out[1] = call.out[2]

\* the two session values belong to one session and agree on what is fixed
\* at creation
SameBinding(s, t) ==
    s # NoSession /\ t # NoSession /\ s.id = t.id
    => t.variables = s.variables /\ t.checklist_id = s.checklist_id

\* no step changes the variables or the checklist_id of a session, in memory
\* or in its file
FrameOfBinding ==
    /\ SameBinding(session, session')
    /\ SameBinding(loaded, loaded')
    /\ SameBinding(loaded, session')
    /\ \A i \in SessionIds :
          /\ disk[i] # NoSession => disk'[i] # NoSession
          /\ SameBinding(disk[i], disk'[i])
          /\ SameBinding(session, disk'[i])
          /\ SameBinding(loaded, disk'[i])
          /\ SameBinding(disk[i], loaded')

\* C25: a session's variables and checklist_id are fixed at creation: no
\* engine operation (record_response, go_back, complete, resume, save) and no
\* run --resume changes them, and an accepted resume holds the items of
\* expand(checklist, stored variables).
C25_VariablesFixed ==
    [][/\ FrameOfBinding
       /\ \A own \in BOOLEAN :
             Resume(own) /\ last'.ok =>
                state'.items = ExpandItems(Content(cl.content), Resumed(own).variables).items]_vars

\* the session last saved under the token t, and the time of that save
Saved(t) == store.files[PathFor(t)].kind = "file" /\ store.files[PathFor(t)].bytes.json
SavedSession(t) == DecodeSession(store.files[PathFor(t)].bytes)
SavedAt(t) == store.files[PathFor(t)].mtime
\* the sessions of the checklist id whose saved status is IN_PROGRESS
SavedInProgress(checklist_id) ==
    {t \in HexTokens :
        /\ Saved(t)
        /\ SavedSession(t).checklist_id = checklist_id
        /\ SavedSession(t).status = "in_progress"}

\* C26: after any sequence of SessionStore.save calls, failed index writes
\* included, find_latest_in_progress(checklist_id) returns the session of
\* that checklist id saved as IN_PROGRESS whose save is the most recent, and
\* absent exactly when no saved session of that id is IN_PROGRESS (so never a
\* session saved as COMPLETED, nor one of another checklist id).
C26_FindLatestInProgress ==
    last.op = "store.find_latest_in_progress" =>
        /\ last.ok
        /\ last.ret = NoSession <=> SavedInProgress(last.arg) = {}
        /\ last.ret # NoSession =>
              \E t \in SavedInProgress(last.arg) :
                  /\ last.ret = SavedSession(t)
                  /\ \A u \in SavedInProgress(last.arg) : SavedAt(u) <= SavedAt(t)

\* the name is not session-*.json (the suffix in either case)
BadName(q) == ~(q.prefix = "session-" /\ q.suffix \in {".json", ".JSON"})
\* the path holds a file whose bytes do not decode into a session
Undecodable(q) == store.files[q].kind = "file" /\ ~store.files[q].bytes.json

\* C27: SessionStore.load(session_id) never raises: it returns absent for an
\* invalid id, a missing file and an undecodable file; load_from_path(path)
\* fails with an error for a path that is no file, for a file not named
\* session-*.json, and for undecodable content.
C27_LoadQuietFromPathLoud ==
    /\ last.op = "store.load" =>
          /\ last.ok
          /\ (\/ ~ValidSessionId(last.arg)
              \/ store.files[PathFor(last.arg)].kind \in {"none", "dir"}
              \/ Undecodable(PathFor(last.arg)))
             => last.ret = NoSession
    /\ last.op = "store.load_from_path"
       /\ (store.files[last.arg].kind # "file" \/ BadName(last.arg) \/ Undecodable(last.arg))
       => ~last.ok

\* load was called on a session file that does not decode
C27_Witness ==
    /\ last.op = "store.load" /\ ValidSessionId(last.arg)
    /\ Undecodable(PathFor(last.arg))
    /\ last.ret = NoSession

\* C28: save / load round trip: for every session s, whatever its identifier
\* token, save(s) succeeds and load(s.id) afterwards returns a session equal
\* to s (id, checklist_id, digest, status, variables, ordered responses).
C28_SaveLoadRoundTrip ==
    last.op = "store.save" =>
        /\ last.ok
        /\ load(store.files, last.arg.id) = Returns(last.arg)

\* the session file holds the session of the engine, in progress, with
\* exactly the responses in memory
PersistedAsInMemory ==
    /\ disk[session.id] # NoSession
    /\ disk[session.id].status = "in_progress"
    /\ disk[session.id].responses = session.responses

C30_InterruptLosesNothing ==
    last.op = "interrupt" =>
        /\ disk[session.id] # NoSession
        /\ disk[session.id].responses = session.responses
        /\ last.ret = Len(disk[session.id].responses)

\* C20: a kept item with a matrix of N entries, of a checklist that holds it
\* once, expands to exactly N resolved items of its id, the k-th with the k-th
\* matrix entry, and their matrix contexts are pairwise distinct.
C20_MatrixCardinality ==
    call.fn = "expand" /\ call.done /\ call.out.ok =>
        \A s \in 1..Len(call.args[1].sections) :
            \A i \in 1..Len(call.args[1].sections[s].items) :
                LET section == call.args[1].sections[s]
                    item == section.items[i]
                    Mine(r) == r.section_name = section.name /\ r.item = item
                    mine == SelectSeq(call.out.items, Mine)
                IN /\ Len(item.matrix) > 0
                   /\ SafeEvalCondition(section.condition, call.args[2]) = "T"
                   /\ SafeEvalCondition(item.condition, call.args[2]) = "T"
                   /\ \A t \in 1..Len(call.args[1].sections) :
                         \A j \in 1..Len(call.args[1].sections[t].items) :
                            /\ call.args[1].sections[t].name = section.name
                            /\ call.args[1].sections[t].items[j] = item
                            => t = s /\ j = i
                   => /\ Len(mine) = Len(item.matrix)
                      /\ \A k \in 1..Len(mine) :
                            /\ mine[k].matrix_context = item.matrix[k]
                            /\ mine[k].item.id = item.id
                      /\ \A j, k \in 1..Len(mine) :
                            j # k => ~DictEq(mine[j].matrix_context, mine[k].matrix_context)

\* the non-interactive command has saved the completed session
BatchDone == last.op = "save" /\ session # NoSession /\ session.status = "completed"

\* the resolved item r is a matrix variant: its item has a matrix
IsVariant(r) == Len(r.item.matrix) > 0

\* the answer entry e may serve the resolved item r: it names the item, and
\* when r is a matrix variant its matrix has the pairs of r's context
Serves(e, r) ==
    /\ e.item_id = r.item.id
    /\ IsVariant(r) => ~e.matrix.none /\ PairSet(e.matrix) = PairSet(r.matrix_context)

\* the ways to give each of the items one answer entry (0: none) such that no
\* entry is given twice and every entry serves its item
Assignments(items, entries) ==
    {f \in [1..Len(items) -> 0..Len(entries)] :
        /\ \A j, k \in 1..Len(items) : j # k /\ f[j] # 0 => f[j] # f[k]
        /\ \A k \in 1..Len(items) : f[k] # 0 => Serves(entries[f[k]], items[k])}

\* C31: a non-interactive run from a fresh start saves a completed session
\* with one response per expanded item, in expansion order, each with the
\* item's id and matrix context; the results come from answer entries used at
\* most once each, a matrix variant's entry having the variant's normalized
\* matrix key, and an item without an entry is skipped
C31_BatchAnswersEveryItem ==
    BatchDone =>
        /\ disk[session.id] = session
        /\ Len(session.responses) = Len(state.items)
        /\ \A k \in 1..Len(session.responses) :
              /\ session.responses[k].item_id = state.items[k].item.id
              /\ session.responses[k].matrix_context = state.items[k].matrix_context
        /\ \E f \in Assignments(state.items, answers) :
              \A k \in 1..Len(session.responses) :
                  session.responses[k].result =
                      IF f[k] = 0 THEN "skip" ELSE _parse_result(answers[f[k]].result)

C33_ErrorsAreReported ==
    last.op = "run_command" /\ ~last.ok => last.ret = "Exit(1)"

\* C34: the expansion cache is a pure memoization: whatever earlier
\* expansions have written into the cache, for every checklist and every
\* variable map the cached expansion returns the sequence of (section name,
\* item, matrix context) the uncached expansion returns, and raises when it
\* raises
C34_CacheIsMemoization ==
    \A i \in 1..Len(ChecklistUniverse), v \in VarMaps :
        /\ ExpandItemsCached(xcache, TRUE, Instance(i), v).ok = ExpandItems(Content(i), v).ok
        /\ ItemsEq(ExpandItemsCached(xcache, TRUE, Instance(i), v).items,
                   ExpandItems(Content(i), v).items)

\* the value is among the elements of the list
IsMember(l, r) == \E j \in 1..Len(r.e) : PyEq(l, r.e[j])

\* the pair (l, r) satisfies the comparison operator
PairHolds(op, l, r) ==
    CASE op = "==" -> PyEq(l, r)
      [] op = "!=" -> ~PyEq(l, r)
      [] op = "in" -> r.t = "list" /\ IsMember(l, r)
      [] op = "not in" -> r.t = "list" /\ ~IsMember(l, r)
      [] OTHER -> FALSE

\* an operand whose evaluation looks up every name it holds: a name, a
\* literal, a list of literals
SimpleOperand(node) ==
    \/ node.k \in {"name", "const"}
    \/ node.k = "list" /\ \A i \in 1..Len(node.args) : node.args[i].k = "const"

\* a chain of comparisons over operands of that kind
IsChain(c) ==
    /\ c.k = "cmp" /\ Len(c.ops) >= 2
    /\ \A i \in 1..Len(c.ops) : c.ops[i] \in {"==", "!=", "in", "not in"}
    /\ \A i \in 1..Len(c.args) : SimpleOperand(c.args[i])

\* the operands 1..p+1 of the chain have values and the pairs 1..p hold
HeldUpTo(c, v, p) ==
    /\ \A i \in 1..(p + 1) : EvalNode(c.args[i], v).t # "err"
    /\ \A i \in 1..p : PairHolds(c.ops[i], EvalNode(c.args[i], v), EvalNode(c.args[i + 1], v))

\* the first pair of the chain that fails or whose right operand raises, one
\* past the last pair when there is none
StopsAt(c, v) ==
    CHOOSE p \in 1..(Len(c.ops) + 1) :
        HeldUpTo(c, v, p - 1) /\ (p <= Len(c.ops) => ~HeldUpTo(c, v, p))

\* C35: a chain of comparisons is evaluated as the standard chained
\* comparison: its operands from left to right, true iff every adjacent pair
\* satisfies its operator, and up to the first failing pair only: no operand
\* behind that pair is evaluated (no name of it is looked up)
C35_ChainShortCircuits ==
    call.fn = "eval" /\ call.done /\ IsChain(call.args[1])
    /\ EvalNode(call.args[1].args[1], call.args[2]).t # "err"
    => /\ call.out.r =
             IF StopsAt(call.args[1], call.args[2]) > Len(call.args[1].ops) THEN "T"
             ELSE IF EvalNode(call.args[1].args[StopsAt(call.args[1], call.args[2]) + 1],
                              call.args[2]).t = "err" THEN "E"
             ELSE "F"
       /\ call.out.read =
             UNION {NamesOf(call.args[1].args[i]) :
                       i \in 1..(IF StopsAt(call.args[1], call.args[2]) > Len(call.args[1].ops)
                                 THEN Len(call.args[1].args)
                                 ELSE StopsAt(call.args[1], call.args[2]) + 1)}

\* a chain that stops at its first pair answers False and never looks up the
\* name behind it, which no variable resolves
C35_Witness ==
    /\ call.fn = "eval" /\ call.done /\ IsChain(call.args[1])
    /\ call.out.r = "F"
    /\ StopsAt(call.args[1], call.args[2]) = 1
    /\ \E n \in NamesOf(call.args[1].args[3]) : ~DictHas(call.args[2], n)
    /\ call.out.read = {}

\* one comparison with in or not in over operands that have values
IsMembershipTest(c, v) ==
    /\ c.k = "cmp" /\ Len(c.ops) = 1 /\ c.ops[1] \in {"in", "not in"}
    /\ \A i \in 1..2 : SimpleOperand(c.args[i]) /\ EvalNode(c.args[i], v).t # "err"

\* C36: a comparison with in or not in whose right-hand side is not a list
\* or tuple is false, without raising, for both operators and every left-hand
\* value; with a list or tuple on the right, in is membership and not in its
\* negation
C36_MembershipAgainstNonList ==
    call.fn = "eval" /\ call.done /\ IsMembershipTest(call.args[1], call.args[2])
    => call.out.r =
          IF EvalNode(call.args[1].args[2], call.args[2]).t # "list" THEN "F"
          ELSE IF IsMember(EvalNode(call.args[1].args[1], call.args[2]),
                           EvalNode(call.args[1].args[2], call.args[2]))
                  = (call.args[1].ops[1] = "in") THEN "T"
          ELSE "F"

\* not in against a string is false
C36_Witness ==
    /\ call.fn = "eval" /\ call.done /\ IsMembershipTest(call.args[1], call.args[2])
    /\ call.args[1].ops[1] = "not in"
    /\ EvalNode(call.args[1].args[2], call.args[2]).t = "str"
    /\ call.out.r = "F"

\* C38: and / or evaluate every operand before they combine them: when an
\* operand raises (a name that no variable resolves, say), the condition
\* raises, also when an operand before it already decides the result
C38_BoolOpEvaluatesAll ==
    call.fn = "eval" /\ call.done /\ call.args[1].k \in {"and", "or"}
    /\ NodeKinds(call.args[1]) \subseteq SpecAllowList
    /\ (\E i \in 1..Len(call.args[1].args) : EvalNode(call.args[1].args[i], call.args[2]).t = "err")
    => call.out.r = "E"

\* an or whose first operand is true raises on the missing name behind it
C38_Witness ==
    /\ call.fn = "eval" /\ call.done /\ call.args[1].k = "or"
    /\ Truthy(EvalNode(call.args[1].args[1], call.args[2]))
    /\ EvalNode(call.args[1].args[2], call.args[2]).t = "err"
    /\ "other" \in call.out.read
    /\ call.out.r = "E"

\* the run has saved the completed session, every item answered
RunDone ==
    /\ last.op = "save" /\ state.started /\ session # NoSession
    /\ session.status = "completed"
    /\ disk[session.id] = session
    /\ Len(session.responses) = Len(state.items)

C39_RefusedResumeKeepsFile ==
    [][/\ last'.op = "resume" /\ ~last'.ok => disk' = disk
       /\ last'.op = "save_loaded" => ResumeAccepts(xcache', cacheOn', cl', loaded')]_vars

\* the step leaves every file but the temporary one as it was, or puts the
\* whole data of the call in the target of the call
AwStepIsAtomic ==
    \A q \in FilePaths \ {TempPath} :
        \/ store'.files[q] = store.files[q]
        \/ /\ call.fn = "atomic_write_bytes"
           /\ q = call.args[1]
           /\ store'.files[q].kind = "file"
           /\ store'.files[q].bytes = call.args[2]

\* C40 as stated: atomic_write_bytes replaces a file atomically: at every
\* step, and when any step fails, the target holds its complete previous
\* content or the complete new content, and no temporary file remains in
\* the directory once the call has returned or raised
C40_AtomicNoTempLeft ==
    [][/\ AwStepIsAtomic
       /\ call'.done => store'.files[TempPath] = NoFile]_vars

\* C40 amended: at every step, and when any step fails, the target holds
\* its complete previous content or the complete new content, and once the
\* call has returned or raised no temporary file remains in the directory
\* unless the removal of the temporary file has itself failed
C40_AtomicTempLeftOnlyByUnlink ==
    [][/\ AwStepIsAtomic
       /\ call'.done /\ store'.files[TempPath] # NoFile =>
              last'.op = "unlink" /\ ~last'.ok]_vars

\* a call has raised after its write failed half way: the target still
\* holds the other content an earlier call gave it, the temporary file is gone
C40_Witness ==
    /\ call.fn = "atomic_write_bytes"
    /\ call.done
    /\ call.out = "raised"
    /\ last.op = "unlink"
    /\ last.ok
    /\ store.files[TempPath] = NoFile
    /\ store.files[call.args[1]].kind = "file"
    /\ store.files[call.args[1]].bytes \in AwData \ {call.args[2]}

====
